---- MODULE Spec2Model ----
(***************************************************************************)
(* Model of the MCP bridge of the UE5-MCP plugin: the command client       *)
(* (FMCPClient), the asset-manager singleton (UMCPAssetManager), the HTTP  *)
(* exchanges they start, and the users of the bridge: the gameplay         *)
(* component (UMCPGameplayComponent) and the game modes (AMCPGameMode,     *)
(* AMCPShooterGameMode).                                                   *)
(*                                                                         *)
(* An FString is a sequence of tokens; a token is a run of characters and  *)
(* every path separator "/" is a token of its own, so that the operations  *)
(* that look at single characters (FString::operator/) can be computed.    *)
(* A JSON value is a record [t, s, n, o]: its type tag, its string, its    *)
(* number and its fields (a sequence of [k, v] pairs, in document order).  *)
(***************************************************************************)
EXTENDS Integers, Sequences, FiniteSets, TLC

VARIABLES
    Instance,     \* UMCPAssetManager::Instance: 0 is nullptr, else an index of Objects
    Objects,      \* the UMCPAssetManager objects constructed so far
    Client,       \* an FMCPClient held directly by a caller
    ConfigFile,   \* <ProjectConfigDir>/mcp_settings.json as the file system holds it
    ConfigReads,  \* the config files Initialize() has looked at, in order
    Returned,     \* the last call of Get() or Initialize(): what it returned and saw
    Requests,     \* the HTTP requests created so far, with what each one delivered
    LastSetURL,   \* the argument of the latest SetServerURL on Client (history)
    GameThreadTasks,  \* the AsyncTask lambdas queued for the game thread, oldest first
    World,        \* the actors spawned into the editor world
    Placements,   \* the invocations of PlaceAssetInLevel so far (history)
    Component,    \* a UMCPGameplayComponent: its AssetManager pointer and its lifecycle
    Calls,        \* the calls made on the component or the game mode so far (history)
    GameMode,     \* an AMCPGameMode: its AssetManager pointer, bConnectedToServer, its life
    Shooter,      \* the AMCPShooterGameMode of the level that is open
    Lambdas,      \* the continuations the game modes handed to the asset manager
    WITH_EDITOR,  \* the build: whether the module was compiled with editor support
    Game,         \* the fields of the AMCPShooterGameMode that runs the shooter
    Enemies,      \* the AMCPShooterEnemy actors spawned in the level, oldest first
    Player,       \* the AMCPShooterCharacter of the level
    Projectiles,  \* the AMCPShooterProjectile actors fired in the level, oldest first
    Did           \* the latest operation of the shooter and what it saw (history)

\* the game modes and what they left with the asset manager
Actors == <<GameMode, Shooter, Lambdas>>

\* the actors and components that use the bridge
Facade == <<Component, Calls, Actors>>

\* the shooter demo that is played on top of the bridge
ShooterGame == <<Game, Enemies, Player, Projectiles, Did>>

vars == <<Instance, Objects, Client, ConfigFile, ConfigReads, Returned, Requests, LastSetURL,
          GameThreadTasks, World, Placements, Facade, WITH_EDITOR, ShooterGame>>

(***************************************************************************)
(* Bounds                                                                  *)
(***************************************************************************)
\* HTTP requests created in one behaviour
MaxRequests == 2

\* calls of PlaceAssetInLevel made by callers in one behaviour
MaxPlacements == 2

\* calls made on a gameplay component or on a game mode in one behaviour
MaxCalls == 2

\* levels the shooter opens in one behaviour
MaxLevels == 2

\* HTTP requests a game mode has started in one behaviour
MaxGameRequests == 3

\* enemies the shooter's game mode spawns in one level
MaxSpawns == 2

\* projectiles fired in one level
MaxProjectiles == 2

\* the score up to which AddScore is called from outside the enemies
MaxScore == 100

(***************************************************************************)
(* FString                                                                 *)
(***************************************************************************)
EmptyString == <<>>

IsEmpty(Str) == Len(Str) = 0

\* FString::operator/ (FString::PathAppend): one separator is inserted unless
\* the left side is empty, already ends in a separator, or the right side
\* begins with "/"; an empty right side only adds the separator.
PathAppend(Lhs, Rhs) ==
    IF IsEmpty(Rhs)
    THEN IF ~IsEmpty(Lhs) /\ Lhs[Len(Lhs)] \notin {"/", "\\"}
         THEN Lhs \o <<"/">>
         ELSE Lhs
    ELSE IF ~IsEmpty(Lhs) /\ Lhs[Len(Lhs)] \notin {"/", "\\"} /\ Rhs[1] # "/"
         THEN Lhs \o <<"/">> \o Rhs
         ELSE Lhs \o Rhs

(***************************************************************************)
(* JSON values                                                             *)
(***************************************************************************)
JNull == [t |-> "null", s |-> <<>>, n |-> 0, o |-> <<>>]
JStr(Str) == [t |-> "string", s |-> Str, n |-> 0, o |-> <<>>]
JNum(Num) == [t |-> "number", s |-> <<>>, n |-> Num, o |-> <<>>]
JArr == [t |-> "array", s |-> <<>>, n |-> 0, o |-> <<>>]
JObj(Fields) == [t |-> "object", s |-> <<>>, n |-> 0, o |-> Fields]
Field(Key, Value) == [k |-> Key, v |-> Value]

\* a TSharedPtr<FJsonObject> that points to nothing
NullJson == [t |-> "nullptr", s |-> <<>>, n |-> 0, o |-> <<>>]

HasField(Obj, Key) == \E i \in 1..Len(Obj.o) : Obj.o[i].k = Key

\* FJsonObject::GetField: the value of the field, a null value when it is absent
GetField(Obj, Key) ==
    IF HasField(Obj, Key)
    THEN Obj.o[CHOOSE i \in 1..Len(Obj.o) :
                  Obj.o[i].k = Key /\ \A j \in 1..(i - 1) : Obj.o[j].k # Key].v
    ELSE JNull

\* FJsonValue::AsString: a string as it is, a number printed, anything else ""
AsString(Value) ==
    CASE Value.t = "string" -> Value.s
      [] Value.t = "number" -> <<ToString(Value.n)>>
      [] OTHER -> EmptyString

\* FJsonValue::AsNumber narrowed to int32: a number as it is, anything else 0
AsInteger(Value) == IF Value.t = "number" THEN Value.n ELSE 0

GetStringField(Obj, Key) == AsString(GetField(Obj, Key))
GetIntegerField(Obj, Key) == AsInteger(GetField(Obj, Key))

\* FJsonObject::TryGetObjectField: [found, object]
TryGetObjectField(Obj, Key) ==
    IF GetField(Obj, Key).t = "object"
    THEN [found |-> TRUE, object |-> GetField(Obj, Key)]
    ELSE [found |-> FALSE, object |-> NullJson]

(***************************************************************************)
(* JSON text.  FJsonSerializer::Serialize writes a value as tokens;        *)
(* FJsonSerializer::Deserialize reads a document.  The documents that the  *)
(* server and the config file can hold are the ones listed here.           *)
(***************************************************************************)
RECURSIVE SerializeValue(_), SerializeFields(_, _)

SerializeValue(Value) ==
    CASE Value.t = "string" -> <<"\"">> \o Value.s \o <<"\"">>
      [] Value.t = "number" -> <<ToString(Value.n)>>
      [] Value.t = "object" -> <<"{">> \o SerializeFields(Value.o, 1) \o <<"}">>
      [] Value.t = "array" -> <<"[", "]">>
      [] OTHER -> <<"null">>

SerializeFields(Fields, i) ==
    IF i > Len(Fields)
    THEN <<>>
    ELSE <<"\"", Fields[i].k, "\"", ":">> \o SerializeValue(Fields[i].v)
         \o (IF i < Len(Fields) THEN <<",">> ELSE <<>>)
         \o SerializeFields(Fields, i + 1)

\* FJsonSerializer::Serialize(RequestObj.ToSharedRef(), Writer)
Serialize(Obj) == SerializeValue(Obj)

TextNotJson == "MCP server"
TextArray == "[1]"
TextEmptyObject == "{}"
TextRunning == "{\"status\":\"running\"}"
TextDegraded == "{\"status\":\"degraded\"}"
TextImported == "{\"result\":{\"asset_info\":{\"name\":\"PlayerShip\"}}}"
TextNoName == "{\"result\":{\"asset_info\":{}}}"
TextNoAssetInfo == "{\"result\":{}}"
TextError == "{\"status\":\"error\",\"message\":\"unknown command\"}"
TextConfig == "{\"server\":{\"host\":\"example.net\",\"port\":1234}}"
TextConfigLocal == "{\"server\":{\"host\":\"localhost\",\"port\":9000}}"
TextConfigNoPort == "{\"server\":{\"host\":\"example.net\"}}"
TextConfigEmptyServer == "{\"server\":{}}"
TextConfigNoServer == "{\"timeout\":30}"

\* the value a JSON document denotes; documents that are not JSON denote none
ParseText(Text) ==
    CASE Text = TextArray -> [ok |-> TRUE, value |-> JArr]
      [] Text = TextEmptyObject -> [ok |-> TRUE, value |-> JObj(<<>>)]
      [] Text = TextRunning ->
            [ok |-> TRUE, value |-> JObj(<<Field("status", JStr(<<"running">>))>>)]
      [] Text = TextDegraded ->
            [ok |-> TRUE, value |-> JObj(<<Field("status", JStr(<<"degraded">>))>>)]
      [] Text = TextImported ->
            [ok |-> TRUE, value |-> JObj(<<Field("result",
                JObj(<<Field("asset_info",
                    JObj(<<Field("name", JStr(<<"PlayerShip">>))>>))>>))>>)]
      [] Text = TextNoName ->
            [ok |-> TRUE, value |-> JObj(<<Field("result",
                JObj(<<Field("asset_info", JObj(<<>>))>>))>>)]
      [] Text = TextNoAssetInfo ->
            [ok |-> TRUE, value |-> JObj(<<Field("result", JObj(<<>>))>>)]
      [] Text = TextError ->
            [ok |-> TRUE, value |-> JObj(<<Field("status", JStr(<<"error">>)),
                                           Field("message", JStr(<<"unknown command">>))>>)]
      [] Text = TextConfig ->
            [ok |-> TRUE, value |-> JObj(<<Field("server",
                JObj(<<Field("host", JStr(<<"example.net">>)),
                       Field("port", JNum(1234))>>))>>)]
      [] Text = TextConfigLocal ->
            [ok |-> TRUE, value |-> JObj(<<Field("server",
                JObj(<<Field("host", JStr(<<"localhost">>)),
                       Field("port", JNum(9000))>>))>>)]
      [] Text = TextConfigNoPort ->
            [ok |-> TRUE, value |-> JObj(<<Field("server",
                JObj(<<Field("host", JStr(<<"example.net">>))>>))>>)]
      [] Text = TextConfigEmptyServer ->
            [ok |-> TRUE, value |-> JObj(<<Field("server", JObj(<<>>))>>)]
      [] Text = TextConfigNoServer ->
            [ok |-> TRUE, value |-> JObj(<<Field("timeout", JNum(30))>>)]
      [] OTHER -> [ok |-> FALSE, value |-> JNull]

\* FJsonSerializer::Deserialize(Reader, TSharedPtr<FJsonObject>&): succeeds, and
\* assigns the out parameter, only when the document is a JSON object
Deserialize(Text) ==
    IF ParseText(Text).ok /\ ParseText(Text).value.t = "object"
    THEN [ok |-> TRUE, object |-> ParseText(Text).value]
    ELSE [ok |-> FALSE, object |-> NullJson]

(***************************************************************************)
(* HTTP: what the HTTP stack hands to OnProcessRequestComplete             *)
(***************************************************************************)
\* EHttpResponseCodes::Ok
HttpOk == 200

HttpResult(Connected, Valid, Code, Content) ==
    [bConnectedSuccessfully |-> Connected, valid |-> Valid, code |-> Code, content |-> Content]

\* no completion delivered yet
NoHttp == HttpResult(FALSE, FALSE, 0, "")

OkResponse(Content) == HttpResult(TRUE, TRUE, HttpOk, Content)

\* connection refused; connected but no response object; connection lost after a
\* response arrived; a response with an error status
HttpFailures ==
    { HttpResult(FALSE, FALSE, 0, ""),
      HttpResult(TRUE, FALSE, 0, ""),
      HttpResult(FALSE, TRUE, HttpOk, TextRunning),
      HttpResult(TRUE, TRUE, 500, TextEmptyObject) }

\* the bodies a 200 response to the operation can carry
BodiesFor(op) ==
    {TextNotJson, TextArray, TextEmptyObject}
    \cup (IF op \in {"CheckConnection", "CheckServerConnection"}
          THEN {TextRunning, TextDegraded} ELSE {})
    \cup (IF op \in {"ImportAsset", "ImportBlenderModel"}
          THEN {TextImported, TextNoName, TextNoAssetInfo} ELSE {})
    \cup (IF op \in {"ExecuteBlenderCommand", "SetGameMode", "SaveLevel"}
          THEN {TextError} ELSE {})

HttpResultsFor(op) == HttpFailures \cup {OkResponse(Text) : Text \in BodiesFor(op)}

\* the short list used where the answer itself is not what is looked at
HttpResultsShort == {HttpResult(FALSE, FALSE, 0, ""), OkResponse(TextRunning)}

(***************************************************************************)
(* FMCPClient: the completion lambdas.  Each yields the invocations of the *)
(* callback it captured, in order.                                         *)
(***************************************************************************)
\* SendPostRequest's lambda without the test of the response code
SendPostRequestCompleteAnyCode(Http) ==
    IF Http.bConnectedSuccessfully /\ Http.valid
    THEN IF Deserialize(Http.content).ok
         THEN <<[bSuccess |-> TRUE, Response |-> Deserialize(Http.content).object]>>
         ELSE <<[bSuccess |-> FALSE, Response |-> NullJson]>>
    ELSE <<[bSuccess |-> FALSE, Response |-> NullJson]>>

\* SendPostRequest's lambda up to its call of OnCompleteCallback
SendPostRequestComplete(Http) ==
    IF Http.bConnectedSuccessfully /\ Http.valid
    THEN IF Http.code = HttpOk
         THEN IF Deserialize(Http.content).ok
              THEN <<[bSuccess |-> TRUE, Response |-> Deserialize(Http.content).object]>>
              ELSE <<[bSuccess |-> FALSE, Response |-> NullJson]>>
         ELSE <<[bSuccess |-> FALSE, Response |-> NullJson]>>
    ELSE <<[bSuccess |-> FALSE, Response |-> NullJson]>>

\* SendGetRequest's lambda up to its call of OnCompleteCallback
SendGetRequestComplete(Http) ==
    IF Http.bConnectedSuccessfully /\ Http.valid
    THEN IF Http.code = HttpOk
         THEN IF Deserialize(Http.content).ok
              THEN <<[bSuccess |-> TRUE, Response |-> Deserialize(Http.content).object]>>
              ELSE <<[bSuccess |-> FALSE, Response |-> NullJson]>>
         ELSE <<[bSuccess |-> FALSE, Response |-> NullJson]>>
    ELSE <<[bSuccess |-> FALSE, Response |-> NullJson]>>

MsgConnected == <<"MCP server connected">>
MsgAbnormal == <<"MCP server status is abnormal: ">>
MsgNoConnection == <<"could not connect to MCP server">>
MsgImportFailed == <<"asset import failed: ">>

\* CheckConnection's lambda leaving the failure to a second probe that is never made
CheckConnectionLambdaSilentFailure(bSuccess, Response) ==
    IF bSuccess
    THEN IF GetStringField(Response, "status") = <<"running">>
         THEN <<[bSuccess |-> TRUE, Message |-> MsgConnected]>>
         ELSE <<[bSuccess |-> FALSE,
                 Message |-> MsgAbnormal \o GetStringField(Response, "status")]>>
    ELSE <<>>

\* CheckConnection's lambda taking any parsed answer for a running server
CheckConnectionLambdaAnyStatus(bSuccess, Response) ==
    IF bSuccess
    THEN <<[bSuccess |-> TRUE, Message |-> MsgConnected]>>
    ELSE <<[bSuccess |-> FALSE, Message |-> MsgNoConnection]>>

\* the lambda CheckConnection hands to SendGetRequest
CheckConnectionLambda(bSuccess, Response) ==
    IF bSuccess
    THEN IF GetStringField(Response, "status") = <<"running">>
         THEN <<[bSuccess |-> TRUE, Message |-> MsgConnected]>>
         ELSE <<[bSuccess |-> FALSE,
                 Message |-> MsgAbnormal \o GetStringField(Response, "status")]>>
    ELSE <<[bSuccess |-> FALSE, Message |-> MsgNoConnection]>>

\* ExecuteBlenderCommand hands the caller's callback to SendPostRequest as it is
ExecuteBlenderCommandLambda(bSuccess, Response) ==
    <<[bSuccess |-> bSuccess, Response |-> Response]>>

\* the AssetName the ImportAsset lambda reads from a response
ImportedAssetName(Response) ==
    IF TryGetObjectField(Response, "result").found
    THEN IF TryGetObjectField(TryGetObjectField(Response, "result").object,
                              "asset_info").found
         THEN GetStringField(
                  TryGetObjectField(TryGetObjectField(Response, "result").object,
                                    "asset_info").object, "name")
         ELSE EmptyString
    ELSE EmptyString

\* ImportAsset's lambda treating an answer that names no asset as a failure
ImportAssetLambdaRequireName(bSuccess, Response) ==
    IF bSuccess
    THEN IF ImportedAssetName(Response) # EmptyString
         THEN <<[bSuccess |-> TRUE, AssetName |-> ImportedAssetName(Response)]>>
         ELSE <<[bSuccess |-> FALSE, AssetName |-> EmptyString]>>
    ELSE <<[bSuccess |-> FALSE, AssetName |-> EmptyString]>>

\* the lambda ImportAsset hands to SendPostRequest
ImportAssetLambda(bSuccess, Response) ==
    IF bSuccess
    THEN <<[bSuccess |-> TRUE, AssetName |-> ImportedAssetName(Response)]>>
    ELSE <<[bSuccess |-> FALSE, AssetName |-> EmptyString]>>

\* SetGameMode's lambda reading the answer: an answer whose status is "error"
\* is reported as a failure
SetGameModeLambdaChecksStatus(bSuccess, Response) ==
    <<[bSuccess |-> bSuccess /\ GetStringField(Response, "status") # <<"error">>]>>

\* the lambda SetGameMode hands to SendPostRequest
SetGameModeLambda(bSuccess, Response) == <<[bSuccess |-> bSuccess]>>

\* the lambda SaveLevel hands to SendPostRequest
SaveLevelLambda(bSuccess, Response) == <<[bSuccess |-> bSuccess]>>

(***************************************************************************)
(* UMCPAssetManager: the completion lambda of ImportBlenderModel           *)
(***************************************************************************)
\* FMCPAssetImportResult(): bSuccess false, the strings empty
DefaultImportResult ==
    [bSuccess |-> FALSE, AssetPath |-> EmptyString, AssetName |-> EmptyString,
     ErrorMessage |-> EmptyString]

\* AssetRegistry.GetAssets(Filter, AssetData): what the registry knows below the
\* destination; the lambda reads it into a local and uses it no further
RegistryAnswers == {<<>>, <<"PlayerShip">>}

\* ImportBlenderModel's lambda gluing destination and name with no separator
ImportBlenderModelLambdaPlainConcat(ModelPath, DestinationPath, AssetData, bSuccess, AssetName) ==
    IF bSuccess
    THEN <<[DefaultImportResult EXCEPT
              !.bSuccess = bSuccess,
              !.AssetName = AssetName,
              !.AssetPath = DestinationPath \o AssetName]>>
    ELSE <<[DefaultImportResult EXCEPT
              !.bSuccess = bSuccess,
              !.ErrorMessage = MsgImportFailed \o ModelPath]>>

\* ImportBlenderModel's lambda filling in name and path before it looks at bSuccess
ImportBlenderModelLambdaPathFirst(ModelPath, DestinationPath, AssetData, bSuccess, AssetName) ==
    IF bSuccess
    THEN <<[DefaultImportResult EXCEPT
              !.bSuccess = bSuccess,
              !.AssetName = AssetName,
              !.AssetPath = PathAppend(DestinationPath, AssetName)]>>
    ELSE <<[DefaultImportResult EXCEPT
              !.bSuccess = bSuccess,
              !.AssetName = AssetName,
              !.AssetPath = PathAppend(DestinationPath, AssetName),
              !.ErrorMessage = MsgImportFailed \o ModelPath]>>

ImportBlenderModelLambda(ModelPath, DestinationPath, AssetData, bSuccess, AssetName) ==
    IF bSuccess
    THEN <<[DefaultImportResult EXCEPT
              !.bSuccess = bSuccess,
              !.AssetName = AssetName,
              !.AssetPath = PathAppend(DestinationPath, AssetName)]>>
    ELSE <<[DefaultImportResult EXCEPT
              !.bSuccess = bSuccess,
              !.ErrorMessage = MsgImportFailed \o ModelPath]>>

(***************************************************************************)
(* Requests                                                                *)
(***************************************************************************)
RECURSIVE Concat(_)
\* the concatenation of a sequence of sequences
Concat(Seqs) == IF Seqs = <<>> THEN <<>> ELSE Head(Seqs) \o Concat(Tail(Seqs))

\* the asset registry was not queried
NotAsked == [asked |-> FALSE, AssetData |-> <<>>]

NoCapture == [ModelPath |-> EmptyString, DestinationPath |-> EmptyString]

\* SendPostRequest: the request it creates, configures and starts
SendPostRequest(URL, JsonPayload, op, capture) ==
    [op |-> op, verb |-> "POST", url |-> URL,
     headers |-> <<[name |-> "Content-Type", value |-> "application/json"]>>,
     content |-> JsonPayload, capture |-> capture,
     state |-> "processing", http |-> NoHttp, transport |-> <<>>,
     registry |-> NotAsked, delivered |-> <<>>]

\* SendGetRequest: the request it creates, configures and starts
SendGetRequest(URL, op, capture) ==
    [op |-> op, verb |-> "GET", url |-> URL,
     headers |-> <<>>,
     content |-> EmptyString, capture |-> capture,
     state |-> "processing", http |-> NoHttp, transport |-> <<>>,
     registry |-> NotAsked, delivered |-> <<>>]

\* the { command, params } object every POST carries
RequestObj(Command, Params) ==
    JObj(<<Field("command", JStr(Command)), Field("params", Params)>>)

\* FMCPClient::FMCPClient
NewClient == [ServerURL |-> <<"http://", "127.0.0.1", ":", "8080">>]

\* SetServerURL that only logs
SetServerURLIgnored(client, InServerURL) == client

\* FMCPClient::SetServerURL
SetServerURL(client, InServerURL) == [client EXCEPT !.ServerURL = InServerURL]

\* FMCPClient::CheckConnection
CheckConnection(client, op) ==
    SendGetRequest(client.ServerURL \o <<"/", "status">>, op, NoCapture)

\* FMCPClient::ExecuteBlenderCommand
ExecuteBlenderCommand(client, Command, Params, op) ==
    SendPostRequest(client.ServerURL \o <<"/", "api", "/", "blender", "/", "command">>,
                    Serialize(RequestObj(Command, Params)), op, NoCapture)

\* FMCPClient::ImportAsset
ImportAsset(client, AssetPath, DestinationPath, op, capture) ==
    SendPostRequest(client.ServerURL \o <<"/", "api", "/", "unreal", "/", "command">>,
                    Serialize(RequestObj(<<"import_asset">>,
                        JObj(<<Field("path", JStr(AssetPath)),
                               Field("destination", JStr(DestinationPath))>>))),
                    op, capture)

\* SetGameMode numbering its requests: the body carries how many went before
SetGameModeNumbered(client, GameModePath, op) ==
    SendPostRequest(client.ServerURL \o <<"/", "api", "/", "unreal", "/", "command">>,
                    Serialize(JObj(<<Field("command", JStr(<<"set_game_mode">>)),
                                     Field("params",
                                         JObj(<<Field("game_mode", JStr(GameModePath))>>)),
                                     Field("id", JNum(Len(Requests)))>>)),
                    op, NoCapture)

\* FMCPClient::SetGameMode
SetGameMode(client, GameModePath, op) ==
    SendPostRequest(client.ServerURL \o <<"/", "api", "/", "unreal", "/", "command">>,
                    Serialize(RequestObj(<<"set_game_mode">>,
                        JObj(<<Field("game_mode", JStr(GameModePath))>>))),
                    op, NoCapture)

\* SaveLevel sending the command without its params object
SaveLevelNoParams(client, op) ==
    SendPostRequest(client.ServerURL \o <<"/", "api", "/", "unreal", "/", "command">>,
                    Serialize(JObj(<<Field("command", JStr(<<"save_level">>))>>)),
                    op, NoCapture)

\* FMCPClient::SaveLevel
SaveLevel(client, op) ==
    SendPostRequest(client.ServerURL \o <<"/", "api", "/", "unreal", "/", "command">>,
                    Serialize(RequestObj(<<"save_level">>, JObj(<<>>))),
                    op, NoCapture)

\* UMCPAssetManager::CheckServerConnection
CheckServerConnection(manager) == CheckConnection(manager.MCPClient, "CheckServerConnection")

\* UMCPAssetManager::ImportBlenderModel
ImportBlenderModel(manager, ModelPath, DestinationPath) ==
    ImportAsset(manager.MCPClient, ModelPath, DestinationPath, "ImportBlenderModel",
                [ModelPath |-> ModelPath, DestinationPath |-> DestinationPath])

\* TSubclassOf<AGameModeBase>: no class, or a class with its path name
NullClass == [valid |-> FALSE, path |-> EmptyString]
GameModeClass(Path) == [valid |-> TRUE, path |-> Path]

\* UClass::GetPathName
GetPathName(Class) == Class.path

\* UMCPAssetManager::SetGameMode sending whatever it is given
AssetManagerSetGameModeUnchecked(manager, Class) ==
    [value |-> TRUE,
     started |-> <<SetGameMode(manager.MCPClient, GetPathName(Class), "ManagerSetGameMode")>>]

\* UMCPAssetManager::SetGameMode: the value returned and the requests started
AssetManagerSetGameMode(manager, Class) ==
    IF ~Class.valid
    THEN [value |-> FALSE, started |-> <<>>]
    ELSE [value |-> TRUE,
          started |-> <<SetGameMode(manager.MCPClient, GetPathName(Class),
                                    "ManagerSetGameMode")>>]

\* What the caller's continuation receives when the HTTP stack completes the
\* request: the transport lambda runs, then the operation's lambda for each call
\* the transport lambda made, then (ImportBlenderModel) the manager's lambda.
Delivered(request, Http, AssetData) ==
    LET GetCalls == SendGetRequestComplete(Http)
        Post == SendPostRequestComplete(Http)
        Imported == Concat([i \in 1..Len(Post) |->
                        ImportAssetLambda(Post[i].bSuccess, Post[i].Response)])
    IN  CASE request.op \in {"CheckConnection", "CheckServerConnection"} ->
                Concat([i \in 1..Len(GetCalls) |->
                    CheckConnectionLambda(GetCalls[i].bSuccess, GetCalls[i].Response)])
          [] request.op = "ExecuteBlenderCommand" ->
                Concat([i \in 1..Len(Post) |->
                    ExecuteBlenderCommandLambda(Post[i].bSuccess, Post[i].Response)])
          [] request.op = "ImportAsset" -> Imported
          [] request.op = "ImportBlenderModel" ->
                Concat([i \in 1..Len(Imported) |->
                    ImportBlenderModelLambda(request.capture.ModelPath,
                        request.capture.DestinationPath, AssetData,
                        Imported[i].bSuccess, Imported[i].AssetName)])
          [] request.op \in {"SetGameMode", "ManagerSetGameMode"} ->
                Concat([i \in 1..Len(Post) |->
                    SetGameModeLambda(Post[i].bSuccess, Post[i].Response)])
          [] request.op = "SaveLevel" ->
                Concat([i \in 1..Len(Post) |->
                    SaveLevelLambda(Post[i].bSuccess, Post[i].Response)])

\* whether the completion reaches the asset-registry query of ImportBlenderModel
AsksRegistry(request, Http) ==
    /\ request.op = "ImportBlenderModel"
    /\ \E i \in 1..Len(SendPostRequestComplete(Http)) :
          \E j \in 1..Len(ImportAssetLambda(SendPostRequestComplete(Http)[i].bSuccess,
                                            SendPostRequestComplete(Http)[i].Response)) :
              ImportAssetLambda(SendPostRequestComplete(Http)[i].bSuccess,
                                SendPostRequestComplete(Http)[i].Response)[j].bSuccess

(***************************************************************************)
(* UMCPAssetManager: construction, Get, Initialize                         *)
(***************************************************************************)
\* the config file is absent; it exists and cannot be read; it holds a text
NoFile == [exists |-> FALSE, loads |-> FALSE, content |-> ""]
Unreadable == [exists |-> TRUE, loads |-> FALSE, content |-> ""]
File(Text) == [exists |-> TRUE, loads |-> TRUE, content |-> Text]

ConfigFiles ==
    {NoFile, Unreadable} \cup
    {File(Text) : Text \in {TextConfig, TextConfigLocal, TextNotJson, TextConfigNoServer,
                            TextConfigEmptyServer, TextConfigNoPort}}

\* FString::Printf(TEXT("http://%s:%d"), *Host, Port)
PrintfServerUrl(Host, Port) == <<"http://">> \o Host \o <<":", ToString(Port)>>

\* UMCPAssetManager::UMCPAssetManager
NewManager == [bInitialized |-> FALSE, MCPClient |-> NewClient]

\* the config-reading part of Initialize that never reaches SetServerURL
ClientAfterConfigNoSet(client, ConfigDoc) == client

\* the client after the config-reading part of Initialize
ClientAfterConfig(client, ConfigDoc) ==
    IF ConfigDoc.exists
    THEN IF ConfigDoc.loads
         THEN IF Deserialize(ConfigDoc.content).ok
              THEN IF TryGetObjectField(Deserialize(ConfigDoc.content).object, "server").found
                   THEN SetServerURL(client,
                            PrintfServerUrl(
                                GetStringField(TryGetObjectField(
                                    Deserialize(ConfigDoc.content).object, "server").object,
                                    "host"),
                                GetIntegerField(TryGetObjectField(
                                    Deserialize(ConfigDoc.content).object, "server").object,
                                    "port")))
                   ELSE client
              ELSE client
         ELSE client
    ELSE client

\* Initialize without the test of bInitialized
InitializeAgain(manager, ConfigDoc) ==
    [manager |-> [bInitialized |-> TRUE,
                  MCPClient |-> ClientAfterConfig(manager.MCPClient, ConfigDoc)],
     value |-> TRUE, reads |-> <<ConfigDoc>>]

\* UMCPAssetManager::Initialize: the manager afterwards, the value returned and
\* the config files it looked at
Initialize(manager, ConfigDoc) ==
    IF manager.bInitialized
    THEN [manager |-> manager, value |-> TRUE, reads |-> <<>>]
    ELSE [manager |-> [bInitialized |-> TRUE,
                       MCPClient |-> ClientAfterConfig(manager.MCPClient, ConfigDoc)],
          value |-> TRUE, reads |-> <<ConfigDoc>>]

\* Get without the test of Instance
GetAlways ==
    /\ Objects' = Append(Objects, Initialize(NewManager, ConfigFile).manager)
    /\ Instance' = Len(Objects) + 1
    /\ ConfigReads' = ConfigReads \o Initialize(NewManager, ConfigFile).reads
    /\ Returned' = [op |-> "Get", pointer |-> Instance', value |-> TRUE,
                    config |-> ConfigFile, constructed |-> TRUE]
    /\ UNCHANGED <<WITH_EDITOR, ShooterGame, Facade, Client, ConfigFile, Requests, LastSetURL,
                 GameThreadTasks, World, Placements>>

\* UMCPAssetManager::Get
Get ==
    /\ IF Instance = 0
       THEN /\ Objects' = Append(Objects, Initialize(NewManager, ConfigFile).manager)
            /\ Instance' = Len(Objects) + 1
            /\ ConfigReads' = ConfigReads \o Initialize(NewManager, ConfigFile).reads
       ELSE UNCHANGED <<Objects, Instance, ConfigReads>>
    /\ Returned' = [op |-> "Get", pointer |-> Instance', value |-> TRUE,
                    config |-> ConfigFile, constructed |-> (Instance = 0)]
    /\ UNCHANGED <<WITH_EDITOR, ShooterGame, Facade, Client, ConfigFile, Requests, LastSetURL,
                 GameThreadTasks, World, Placements>>

\* a caller holding the pointer Get() gave it calls Initialize() again
CallInitialize ==
    /\ Instance # 0
    /\ Objects' = [Objects EXCEPT ![Instance] = Initialize(@, ConfigFile).manager]
    /\ ConfigReads' = ConfigReads \o Initialize(Objects[Instance], ConfigFile).reads
    /\ Returned' = [op |-> "Initialize", pointer |-> Instance,
                    value |-> Initialize(Objects[Instance], ConfigFile).value,
                    config |-> ConfigFile, constructed |-> FALSE]
    /\ UNCHANGED <<WITH_EDITOR, ShooterGame, Facade, Instance, Client, ConfigFile, Requests, LastSetURL,
                 GameThreadTasks, World, Placements>>

\* the file system: mcp_settings.json is written, replaced or removed
ConfigChange(ConfigDoc) ==
    /\ ConfigDoc # ConfigFile
    /\ ConfigFile' = ConfigDoc
    /\ UNCHANGED <<WITH_EDITOR, ShooterGame, Facade, Instance, Objects, Client, ConfigReads, Returned, Requests, LastSetURL,
                 GameThreadTasks, World, Placements>>

(***************************************************************************)
(* Calls that start a request                                              *)
(***************************************************************************)
ModelPaths == {<<"exports", "/", "PlayerShip.fbx">>}
GameContent == <<"/", "Game", "/", "BlenderAssets">>
DestinationPaths == {GameContent, GameContent \o <<"/">>, EmptyString}
GameModePaths == {<<"/", "Game", "/", "GM.GM_C">>}
Commands == {<<"create_model">>}
CommandParams == {JObj(<<Field("model_type", JStr(<<"ship">>))>>)}
ServerURLs == {<<"http://", "example.net", ":", "1234">>, <<"http://", "localhost", ":", "9000">>}

\* HttpRequest->ProcessRequest(): the request is with the HTTP stack
Start(request) ==
    /\ Requests' = Append(Requests, request)
    /\ UNCHANGED <<WITH_EDITOR, ShooterGame, Facade, Instance, Objects, Client, ConfigFile, ConfigReads, Returned, LastSetURL,
                 GameThreadTasks, World, Placements>>

CallSetServerURL(InServerURL) ==
    /\ Client' = SetServerURL(Client, InServerURL)
    /\ LastSetURL' = InServerURL
    /\ UNCHANGED <<WITH_EDITOR, ShooterGame, Facade, Instance, Objects, ConfigFile, ConfigReads, Returned, Requests,
                 GameThreadTasks, World, Placements>>

CallCheckConnection ==
    /\ Len(Requests) < MaxRequests
    /\ Start(CheckConnection(Client, "CheckConnection"))

CallExecuteBlenderCommand ==
    /\ Len(Requests) < MaxRequests
    /\ \E Command \in Commands, Params \in CommandParams :
          Start(ExecuteBlenderCommand(Client, Command, Params, "ExecuteBlenderCommand"))

CallImportAsset ==
    /\ Len(Requests) < MaxRequests
    /\ \E AssetPath \in ModelPaths :
          Start(ImportAsset(Client, AssetPath, GameContent, "ImportAsset", NoCapture))

CallSetGameMode ==
    /\ Len(Requests) < MaxRequests
    /\ \E GameModePath \in GameModePaths :
          Start(SetGameMode(Client, GameModePath, "SetGameMode"))

CallSaveLevel ==
    /\ Len(Requests) < MaxRequests
    /\ Start(SaveLevel(Client, "SaveLevel"))

CallCheckServerConnection ==
    /\ Len(Requests) < MaxRequests
    /\ Instance # 0
    /\ Start(CheckServerConnection(Objects[Instance]))

CallImportBlenderModel(DestinationPath) ==
    /\ Len(Requests) < MaxRequests
    /\ Instance # 0
    /\ \E ModelPath \in ModelPaths :
          Start(ImportBlenderModel(Objects[Instance], ModelPath, DestinationPath))

GameModeClasses ==
    {NullClass,
     GameModeClass(<<"/", "Game", "/", "GM.GM_C">>),
     GameModeClass(<<"/", "Script", "/", "MCPCpp.MCPGameMode">>)}

\* a caller holding the instance calls its SetGameMode
CallAssetManagerSetGameMode(Class) ==
    /\ Instance # 0
    /\ Len(Requests) + Len(AssetManagerSetGameMode(Objects[Instance], Class).started)
           <= MaxRequests
    /\ Requests' = Requests \o AssetManagerSetGameMode(Objects[Instance], Class).started
    /\ Returned' = [op |-> "SetGameMode", pointer |-> Instance,
                    value |-> AssetManagerSetGameMode(Objects[Instance], Class).value,
                    config |-> ConfigFile, constructed |-> FALSE,
                    GameModeClass |-> Class]
    /\ UNCHANGED <<WITH_EDITOR, ShooterGame, Facade, Instance, Objects, Client, ConfigFile, ConfigReads, LastSetURL,
                   GameThreadTasks, World, Placements>>

(***************************************************************************)
(* The HTTP stack completes a request: OnProcessRequestComplete fires once *)
(***************************************************************************)
\* the completion with the fallback the comment in CheckConnection speaks of: a
\* probe that failed is followed by a probe of <serverUrl>/api/status
OnProcessRequestCompleteFallback(i, Http) ==
    /\ Requests[i].state = "processing"
    /\ \E AssetData \in (IF AsksRegistry(Requests[i], Http) THEN RegistryAnswers ELSE {<<>>}) :
          Requests' =
              [Requests EXCEPT ![i] =
                  [@ EXCEPT !.state = "completed",
                            !.http = Http,
                            !.transport = IF Requests[i].verb = "GET"
                                          THEN SendGetRequestComplete(Http)
                                          ELSE SendPostRequestComplete(Http),
                            !.registry = [asked |-> AsksRegistry(Requests[i], Http),
                                          AssetData |-> AssetData],
                            !.delivered = @ \o Delivered(Requests[i], Http, AssetData)]]
              \o (IF Requests[i].verb = "GET" /\ SendGetRequestComplete(Http) # <<>>
                     /\ ~SendGetRequestComplete(Http)[1].bSuccess
                  THEN <<SendGetRequest(
                            SubSeq(Requests[i].url, 1, Len(Requests[i].url) - 2)
                                \o <<"/", "api", "/", "status">>,
                            Requests[i].op, NoCapture)>>
                  ELSE <<>>)
    /\ UNCHANGED <<WITH_EDITOR, ShooterGame, Facade, Instance, Objects, Client, ConfigFile, ConfigReads, Returned, LastSetURL,
                 GameThreadTasks, World, Placements>>

\* the completion of a client that keeps one slot for the pending call: the
\* continuation and the arguments handed over are those of the latest request
OnProcessRequestCompleteLatestCapture(i, Http) ==
    /\ Requests[i].state = "processing"
    /\ \E AssetData \in (IF AsksRegistry(Requests[Len(Requests)], Http)
                         THEN RegistryAnswers ELSE {<<>>}) :
          Requests' = [Requests EXCEPT ![i] =
              [@ EXCEPT !.state = "completed",
                        !.http = Http,
                        !.transport = IF Requests[i].verb = "GET"
                                      THEN SendGetRequestComplete(Http)
                                      ELSE SendPostRequestComplete(Http),
                        !.registry = [asked |-> AsksRegistry(Requests[Len(Requests)], Http),
                                      AssetData |-> AssetData],
                        !.delivered = @ \o Delivered(Requests[Len(Requests)], Http, AssetData)]]
    /\ UNCHANGED <<WITH_EDITOR, ShooterGame, Facade, Instance, Objects, Client, ConfigFile, ConfigReads, Returned, LastSetURL,
                 GameThreadTasks, World, Placements>>

OnProcessRequestComplete(i, Http) ==
    /\ Requests[i].state = "processing"
    /\ \E AssetData \in (IF AsksRegistry(Requests[i], Http) THEN RegistryAnswers ELSE {<<>>}) :
          Requests' = [Requests EXCEPT ![i] =
              [@ EXCEPT !.state = "completed",
                        !.http = Http,
                        !.transport = IF Requests[i].verb = "GET"
                                      THEN SendGetRequestComplete(Http)
                                      ELSE SendPostRequestComplete(Http),
                        !.registry = [asked |-> AsksRegistry(Requests[i], Http),
                                      AssetData |-> AssetData],
                        !.delivered = @ \o Delivered(Requests[i], Http, AssetData)]]
    /\ UNCHANGED <<WITH_EDITOR, ShooterGame, Facade, Instance, Objects, Client, ConfigFile, ConfigReads, Returned, LastSetURL,
                 GameThreadTasks, World, Placements>>

(***************************************************************************)
(* UMCPAssetManager::PlaceAssetInLevel                                     *)
(***************************************************************************)
GameThread == "GameThread"
WorkerThread == "WorkerThread"
Threads == {GameThread, WorkerThread}

IsInGameThread(Thread) == Thread = GameThread

\* the objects LoadObject<UObject> finds: a static mesh, a blueprint, a
\* blueprint that has no generated class, an asset of another kind; nothing
\* under any other path
MeshPath == <<"/", "Game", "/", "BlenderAssets", "/", "PlayerShip">>
BlueprintPath == <<"/", "Game", "/", "Blueprints", "/", "BP_Enemy">>
UncompiledBlueprintPath == <<"/", "Game", "/", "Blueprints", "/", "BP_Draft">>
TexturePath == <<"/", "Game", "/", "Textures", "/", "T_Hull">>
MissingPath == <<"/", "Game", "/", "X">>
AssetPaths == {MeshPath, BlueprintPath, UncompiledBlueprintPath, TexturePath, MissingPath}

NullObject == [valid |-> FALSE, class |-> "none", name |-> "none", GeneratedClass |-> "nullptr"]

LoadObject(AssetPath) ==
    CASE AssetPath = MeshPath ->
            [valid |-> TRUE, class |-> "UStaticMesh", name |-> "PlayerShip",
             GeneratedClass |-> "nullptr"]
      [] AssetPath = BlueprintPath ->
            [valid |-> TRUE, class |-> "UBlueprint", name |-> "BP_Enemy",
             GeneratedClass |-> "BP_Enemy_C"]
      [] AssetPath = UncompiledBlueprintPath ->
            [valid |-> TRUE, class |-> "UBlueprint", name |-> "BP_Draft",
             GeneratedClass |-> "nullptr"]
      [] AssetPath = TexturePath ->
            [valid |-> TRUE, class |-> "UTexture2D", name |-> "T_Hull",
             GeneratedClass |-> "nullptr"]
      [] OTHER -> NullObject

FVector(X, Y, Z) == [X |-> X, Y |-> Y, Z |-> Z]
FRotator(Pitch, Yaw, Roll) == [Pitch |-> Pitch, Yaw |-> Yaw, Roll |-> Roll]
Locations == {FVector(100, 0, 50)}
Rotations == {FRotator(0, 90, 0)}
Scales == {FVector(2, 2, 2)}
ActorNames == {EmptyString, <<"Ship">>}

\* the actor World->SpawnActor created, after the calls made on it; each
\* mutation is marked with the thread that made it
SpawnedActor(Class, Mesh, Location, Rotation, Scale, ActorName, Thread) ==
    [class |-> Class, mesh |-> Mesh, location |-> Location, rotation |-> Rotation,
     scale |-> Scale, label |-> ActorName,
     spawnedOn |-> Thread, scaledOn |-> Thread,
     labelledOn |-> IF IsEmpty(ActorName) THEN "none" ELSE Thread]

\* the lambda handed to AsyncTask: its captures
PlaceTask(AssetPath, Location, Rotation, Scale, ActorName) ==
    [AssetPath |-> AssetPath, Location |-> Location, Rotation |-> Rotation,
     Scale |-> Scale, ActorName |-> ActorName]

\* what one invocation did: the value returned, the tasks posted, the paths
\* handed to LoadObject, what the editor world context gave, how SpawnActor
\* ended, the actors spawned
Outcome(value, posted, loaded, world, spawn, spawned) ==
    [value |-> value, posted |-> posted, loaded |-> loaded, world |-> world,
     spawn |-> spawn, spawned |-> spawned]

\* the part of PlaceAssetInLevel after the thread test
PlaceOnThisThread(Thread, AssetPath, Location, Rotation, Scale, ActorName, bWorld, bSpawned) ==
    IF ~LoadObject(AssetPath).valid
    THEN Outcome(FALSE, <<>>, <<AssetPath>>, "not asked", "not tried", <<>>)
    ELSE IF LoadObject(AssetPath).class = "UStaticMesh"
    THEN IF bWorld
         THEN IF bSpawned
              THEN Outcome(TRUE, <<>>, <<AssetPath>>, "found", "spawned",
                       <<SpawnedActor("AStaticMeshActor", LoadObject(AssetPath).name,
                                      Location, Rotation, Scale, ActorName, Thread)>>)
              ELSE Outcome(FALSE, <<>>, <<AssetPath>>, "found", "failed", <<>>)
         ELSE Outcome(FALSE, <<>>, <<AssetPath>>, "none", "not tried", <<>>)
    ELSE IF LoadObject(AssetPath).class = "UBlueprint"
    THEN IF LoadObject(AssetPath).GeneratedClass # "nullptr"
         THEN IF bWorld
              THEN IF bSpawned
                   THEN Outcome(TRUE, <<>>, <<AssetPath>>, "found", "spawned",
                            <<SpawnedActor(LoadObject(AssetPath).GeneratedClass, "none",
                                           Location, Rotation, Scale, ActorName, Thread)>>)
                   ELSE Outcome(FALSE, <<>>, <<AssetPath>>, "found", "failed", <<>>)
              ELSE Outcome(FALSE, <<>>, <<AssetPath>>, "none", "not tried", <<>>)
         ELSE Outcome(FALSE, <<>>, <<AssetPath>>, "not asked", "not tried", <<>>)
    ELSE Outcome(FALSE, <<>>, <<AssetPath>>, "not asked", "not tried", <<>>)

\* PlaceAssetInLevel posting the task and going on without the return
PlaceAssetInLevelPostAndProceed(Thread, AssetPath, Location, Rotation, Scale, ActorName, bWorld, bSpawned) ==
    IF ~IsInGameThread(Thread)
    THEN [PlaceOnThisThread(Thread, AssetPath, Location, Rotation, Scale, ActorName,
                            bWorld, bSpawned)
            EXCEPT !.posted = <<PlaceTask(AssetPath, Location, Rotation, Scale, ActorName)>>]
    ELSE PlaceOnThisThread(Thread, AssetPath, Location, Rotation, Scale, ActorName,
                           bWorld, bSpawned)

\* PlaceAssetInLevel without the test of the thread
PlaceAssetInLevelNoThreadCheck(Thread, AssetPath, Location, Rotation, Scale, ActorName, bWorld, bSpawned) ==
    PlaceOnThisThread(Thread, AssetPath, Location, Rotation, Scale, ActorName,
                      bWorld, bSpawned)

\* PlaceAssetInLevel returning true from the mesh branch whether or not
\* SpawnActor gave an actor
PlaceAssetInLevelTrueWithoutActor(Thread, AssetPath, Location, Rotation, Scale, ActorName, bWorld, bSpawned) ==
    IF ~IsInGameThread(Thread)
    THEN Outcome(TRUE, <<PlaceTask(AssetPath, Location, Rotation, Scale, ActorName)>>,
                 <<>>, "not asked", "not tried", <<>>)
    ELSE IF LoadObject(AssetPath).class = "UStaticMesh" /\ bWorld
         THEN [PlaceOnThisThread(Thread, AssetPath, Location, Rotation, Scale, ActorName,
                                 bWorld, bSpawned) EXCEPT !.value = TRUE]
         ELSE PlaceOnThisThread(Thread, AssetPath, Location, Rotation, Scale, ActorName,
                                bWorld, bSpawned)

\* PlaceAssetInLevel with the editor's body compiled into every build
PlaceAssetInLevelEveryBuild(Thread, AssetPath, Location, Rotation, Scale, ActorName, bWorld, bSpawned) ==
    IF ~IsInGameThread(Thread)
    THEN Outcome(TRUE, <<PlaceTask(AssetPath, Location, Rotation, Scale, ActorName)>>,
                 <<>>, "not asked", "not tried", <<>>)
    ELSE PlaceOnThisThread(Thread, AssetPath, Location, Rotation, Scale, ActorName,
                           bWorld, bSpawned)

\* UMCPAssetManager::PlaceAssetInLevel, invoked on Thread; bWorld: the editor
\* world context has a world; bSpawned: SpawnActor gives an actor
PlaceAssetInLevel(Thread, AssetPath, Location, Rotation, Scale, ActorName, bWorld, bSpawned) ==
    IF ~WITH_EDITOR
    THEN Outcome(FALSE, <<>>, <<>>, "not asked", "not tried", <<>>)
    ELSE IF ~IsInGameThread(Thread)
    THEN Outcome(TRUE, <<PlaceTask(AssetPath, Location, Rotation, Scale, ActorName)>>,
                 <<>>, "not asked", "not tried", <<>>)
    ELSE PlaceOnThisThread(Thread, AssetPath, Location, Rotation, Scale, ActorName,
                           bWorld, bSpawned)

\* the record of an invocation: who made it (a caller, or the task posted by
\* invocation `origin`), on which thread, with what, and what it did
Invocation(from, origin, Thread, task, outcome) ==
    [from |-> from, origin |-> origin, thread |-> Thread, args |-> task,
     value |-> outcome.value, posted |-> Len(outcome.posted), loaded |-> outcome.loaded,
     world |-> outcome.world, spawn |-> outcome.spawn, spawned |-> Len(outcome.spawned)]

\* the invocation takes effect: its tasks are queued, its actors are in the world
Invoked(from, origin, Thread, task, outcome, Pending) ==
    /\ Placements' = Append(Placements, Invocation(from, origin, Thread, task, outcome))
    /\ GameThreadTasks' =
           Pending \o [k \in 1..Len(outcome.posted) |->
                          [task |-> outcome.posted[k], origin |-> origin]]
    /\ World' = World \o outcome.spawned
    /\ UNCHANGED <<WITH_EDITOR, ShooterGame, Facade, Instance, Objects, Client, ConfigFile, ConfigReads, Returned, Requests,
                   LastSetURL>>

CallerInvocations == {k \in 1..Len(Placements) : Placements[k].from = "caller"}

\* a caller on some thread calls PlaceAssetInLevel on the instance
CallPlaceAssetInLevel(Thread, AssetPath, ActorName, bWorld, bSpawned) ==
    /\ Instance # 0
    /\ Cardinality(CallerInvocations) < MaxPlacements
    /\ \E Location \in Locations, Rotation \in Rotations, Scale \in Scales :
          Invoked("caller", Len(Placements) + 1, Thread,
                  PlaceTask(AssetPath, Location, Rotation, Scale, ActorName),
                  PlaceAssetInLevel(Thread, AssetPath, Location, Rotation, Scale, ActorName,
                                    bWorld, bSpawned),
                  GameThreadTasks)

\* the game thread that takes the task from its queue and forgets it
RunGameThreadTaskDropped(bWorld, bSpawned) ==
    /\ GameThreadTasks # <<>>
    /\ GameThreadTasks' = Tail(GameThreadTasks)
    /\ UNCHANGED <<WITH_EDITOR, ShooterGame, Facade, Instance, Objects, Client, ConfigFile, ConfigReads, Returned, Requests,
                   LastSetURL, World, Placements>>

\* the game thread runs the oldest AsyncTask lambda: PlaceAssetInLevel with the
\* captured arguments, its value dropped
RunGameThreadTask(bWorld, bSpawned) ==
    /\ GameThreadTasks # <<>>
    /\ Invoked("task", Head(GameThreadTasks).origin, GameThread, Head(GameThreadTasks).task,
               PlaceAssetInLevel(GameThread,
                                 Head(GameThreadTasks).task.AssetPath,
                                 Head(GameThreadTasks).task.Location,
                                 Head(GameThreadTasks).task.Rotation,
                                 Head(GameThreadTasks).task.Scale,
                                 Head(GameThreadTasks).task.ActorName,
                                 bWorld, bSpawned),
               Tail(GameThreadTasks))

(***************************************************************************)
(* UMCPGameplayComponent                                                   *)
(***************************************************************************)
\* UMCPAssetManager::Get() called from inside another handler: what it does to
\* the singleton
GetCalled ==
    /\ IF Instance = 0
       THEN /\ Objects' = Append(Objects, Initialize(NewManager, ConfigFile).manager)
            /\ Instance' = Len(Objects) + 1
            /\ ConfigReads' = ConfigReads \o Initialize(NewManager, ConfigFile).reads
       ELSE UNCHANGED <<Objects, Instance, ConfigReads>>
    /\ Returned' = [op |-> "Get", pointer |-> Instance', value |-> TRUE,
                    config |-> ConfigFile, constructed |-> (Instance = 0)]

\* UMCPGameplayComponent::UMCPGameplayComponent: AssetManager = nullptr; the
\* constructor enables ticking and leaves bWantsInitializeComponent as
\* UActorComponent's constructor set it, false
NewComponent ==
    [AssetManager |-> 0, bWantsInitializeComponent |-> FALSE, bRegistered |-> FALSE,
     bHasBeenInitialized |-> FALSE, bHasBegunPlay |-> FALSE]

\* UMCPGameplayComponent::InitializeComponent: the component afterwards, given
\* the pointer UMCPAssetManager::Get() returned
InitializeComponent(component, manager) ==
    [component EXCEPT !.AssetManager = manager, !.bHasBeenInitialized = TRUE]

\* no actor
NullActor == [class |-> "nullptr"]

\* what a call on the component or the game mode did: the invocations of the
\* delegate it was given, the value it returned, the requests it started, the
\* actors it spawned
CallOutcome(executed, value, started, spawned) ==
    [executed |-> executed, value |-> value, started |-> started, spawned |-> spawned]

\* UMCPGameplayComponent::LoadBlenderAsset
LoadBlenderAsset(component, AssetPath, bBound) ==
    IF component.AssetManager = 0
    THEN CallOutcome(IF bBound THEN <<FALSE>> ELSE <<>>, "void", <<>>, <<>>)
    ELSE IF LoadObject(AssetPath).valid
         THEN CallOutcome(IF bBound THEN <<TRUE>> ELSE <<>>, "void", <<>>, <<>>)
         ELSE CallOutcome(IF bBound THEN <<FALSE>> ELSE <<>>, "void", <<>>, <<>>)

\* the actor SpawnAssetActor spawned, after SetStaticMesh and SetActorScale3D;
\* the component is called on the game thread and sets no label
ComponentActor(Class, Mesh, Location, Rotation, Scale) ==
    SpawnedActor(Class, Mesh, Location, Rotation, Scale, EmptyString, GameThread)

\* SpawnAssetActor spawning without asking for the world
SpawnAssetActorNoWorldCheck(component, AssetPath, Location, Rotation, Scale, bWorld, bSpawned) ==
    IF component.AssetManager = 0 \/ ~LoadObject(AssetPath).valid
    THEN CallOutcome(<<>>, NullActor, <<>>, <<>>)
    ELSE IF LoadObject(AssetPath).class = "UStaticMesh" /\ bSpawned
    THEN CallOutcome(<<>>,
             ComponentActor("AStaticMeshActor", LoadObject(AssetPath).name,
                            Location, Rotation, Scale),
             <<>>,
             <<ComponentActor("AStaticMeshActor", LoadObject(AssetPath).name,
                              Location, Rotation, Scale)>>)
    ELSE CallOutcome(<<>>, NullActor, <<>>, <<>>)

\* UMCPGameplayComponent::SpawnAssetActor; bWorld: GetWorld() gives a world;
\* bSpawned: SpawnActor gives an actor
SpawnAssetActor(component, AssetPath, Location, Rotation, Scale, bWorld, bSpawned) ==
    IF component.AssetManager = 0
    THEN CallOutcome(<<>>, NullActor, <<>>, <<>>)
    ELSE IF ~LoadObject(AssetPath).valid
    THEN CallOutcome(<<>>, NullActor, <<>>, <<>>)
    ELSE IF LoadObject(AssetPath).class = "UStaticMesh"
    THEN IF ~bWorld
         THEN CallOutcome(<<>>, NullActor, <<>>, <<>>)
         ELSE IF bSpawned
              THEN CallOutcome(<<>>,
                       ComponentActor("AStaticMeshActor", LoadObject(AssetPath).name,
                                      Location, Rotation, Scale),
                       <<>>,
                       <<ComponentActor("AStaticMeshActor", LoadObject(AssetPath).name,
                                        Location, Rotation, Scale)>>)
              ELSE CallOutcome(<<>>, NullActor, <<>>, <<>>)
    ELSE IF LoadObject(AssetPath).class = "UBlueprint"
            /\ LoadObject(AssetPath).GeneratedClass # "nullptr"
    THEN IF ~bWorld
         THEN CallOutcome(<<>>, NullActor, <<>>, <<>>)
         ELSE IF bSpawned
              THEN CallOutcome(<<>>,
                       ComponentActor(LoadObject(AssetPath).GeneratedClass, "none",
                                      Location, Rotation, Scale),
                       <<>>,
                       <<ComponentActor(LoadObject(AssetPath).GeneratedClass, "none",
                                        Location, Rotation, Scale)>>)
              ELSE CallOutcome(<<>>, NullActor, <<>>, <<>>)
    ELSE CallOutcome(<<>>, NullActor, <<>>, <<>>)

ModelTypes == {<<"ship">>}

\* SpawnCustomBlenderAsset with the round trip in place: the payload goes to
\* the server as a create_model command and the delegate waits for the answer
SpawnCustomBlenderAssetSendsCommand(component, ModelType, Location, Rotation, Scale, bBound) ==
    IF component.AssetManager = 0
    THEN CallOutcome(IF bBound THEN <<NullActor>> ELSE <<>>, "void", <<>>, <<>>)
    ELSE CallOutcome(<<>>, "void",
             <<ExecuteBlenderCommand(Objects[component.AssetManager].MCPClient,
                   <<"create_model">>, JObj(<<Field("model_type", JStr(ModelType))>>),
                   "ExecuteBlenderCommand")>>,
             <<>>)

\* UMCPGameplayComponent::SpawnCustomBlenderAsset: the Params object it builds
\* (model_type, location, scale) is a local that goes nowhere
SpawnCustomBlenderAsset(component, ModelType, Location, Rotation, Scale, bBound) ==
    IF component.AssetManager = 0
    THEN CallOutcome(IF bBound THEN <<NullActor>> ELSE <<>>, "void", <<>>, <<>>)
    ELSE CallOutcome(IF bBound THEN <<NullActor>> ELSE <<>>, "void", <<>>, <<>>)

\* the record of a call: on what, with what, the AssetManager pointer the
\* callee held, and what the call did
CallRecord(op, path, bBound, manager, bWorld, bSpawned, outcome) ==
    [op |-> op, path |-> path, bound |-> bBound, manager |-> manager,
     world |-> bWorld, spawn |-> bSpawned,
     executed |-> outcome.executed, value |-> outcome.value,
     started |-> Len(outcome.started), spawned |-> Len(outcome.spawned)]

\* the call takes effect: its requests are with the HTTP stack, its actors are
\* in the world
Called(record, outcome) ==
    /\ Calls' = Append(Calls, record)
    /\ Requests' = Requests \o outcome.started
    /\ World' = World \o outcome.spawned

\* the owning actor is spawned: its components are registered, and
\* AActor::InitializeComponents calls InitializeComponent on those that have
\* bWantsInitializeComponent set
OwnerInitializeComponents ==
    /\ ~Component.bRegistered
    /\ IF Component.bWantsInitializeComponent
       THEN /\ GetCalled
            /\ Component' = [InitializeComponent(Component, Instance')
                                EXCEPT !.bRegistered = TRUE]
       ELSE /\ Component' = [Component EXCEPT !.bRegistered = TRUE]
            /\ UNCHANGED <<Instance, Objects, ConfigReads, Returned>>
    /\ UNCHANGED <<WITH_EDITOR, ShooterGame, Client, ConfigFile, Requests, LastSetURL, GameThreadTasks, World,
                   Placements, Calls, Actors>>

\* code holding the component calls its public InitializeComponent() itself
CallInitializeComponent ==
    /\ Component.bRegistered
    /\ ~Component.bHasBeenInitialized
    /\ GetCalled
    /\ Component' = InitializeComponent(Component, Instance')
    /\ UNCHANGED <<WITH_EDITOR, ShooterGame, Client, ConfigFile, Requests, LastSetURL, GameThreadTasks, World,
                   Placements, Calls, Actors>>

\* UMCPGameplayComponent::BeginPlay
ComponentBeginPlay ==
    /\ Component.bRegistered
    /\ ~Component.bHasBegunPlay
    /\ Component.AssetManager # 0 => Len(Requests) < MaxRequests
    /\ Requests' = IF Component.AssetManager # 0
                   THEN Append(Requests,
                               CheckServerConnection(Objects[Component.AssetManager]))
                   ELSE Requests
    /\ Component' = [Component EXCEPT !.bHasBegunPlay = TRUE]
    /\ UNCHANGED <<WITH_EDITOR, ShooterGame, Instance, Objects, Client, ConfigFile, ConfigReads, Returned, LastSetURL,
                   GameThreadTasks, World, Placements, Calls, Actors>>

CallLoadBlenderAsset(AssetPath, bBound) ==
    /\ Component.bHasBegunPlay
    /\ Len(Calls) < MaxCalls
    /\ Called(CallRecord("LoadBlenderAsset", AssetPath, bBound, Component.AssetManager,
                         FALSE, FALSE, LoadBlenderAsset(Component, AssetPath, bBound)),
              LoadBlenderAsset(Component, AssetPath, bBound))
    /\ UNCHANGED <<WITH_EDITOR, ShooterGame, Instance, Objects, Client, ConfigFile, ConfigReads, Returned, LastSetURL,
                   GameThreadTasks, Placements, Component, Actors>>

CallSpawnAssetActor(AssetPath, bWorld, bSpawned) ==
    /\ Component.bHasBegunPlay
    /\ Len(Calls) < MaxCalls
    /\ \E Location \in Locations, Rotation \in Rotations, Scale \in Scales :
          Called(CallRecord("SpawnAssetActor", AssetPath, FALSE, Component.AssetManager,
                            bWorld, bSpawned,
                            SpawnAssetActor(Component, AssetPath, Location, Rotation, Scale,
                                            bWorld, bSpawned)),
                 SpawnAssetActor(Component, AssetPath, Location, Rotation, Scale,
                                 bWorld, bSpawned))
    /\ UNCHANGED <<WITH_EDITOR, ShooterGame, Instance, Objects, Client, ConfigFile, ConfigReads, Returned, LastSetURL,
                   GameThreadTasks, Placements, Component, Actors>>

CallSpawnCustomBlenderAsset(bBound) ==
    /\ Component.bHasBegunPlay
    /\ Len(Calls) < MaxCalls
    /\ \E ModelType \in ModelTypes, Location \in Locations, Rotation \in Rotations,
          Scale \in Scales :
          Called(CallRecord("SpawnCustomBlenderAsset", ModelType, bBound,
                            Component.AssetManager, FALSE, FALSE,
                            SpawnCustomBlenderAsset(Component, ModelType, Location, Rotation,
                                                    Scale, bBound)),
                 SpawnCustomBlenderAsset(Component, ModelType, Location, Rotation,
                                         Scale, bBound))
    /\ UNCHANGED <<WITH_EDITOR, ShooterGame, Instance, Objects, Client, ConfigFile, ConfigReads, Returned, LastSetURL,
                   GameThreadTasks, Placements, Component, Actors>>

(***************************************************************************)
(* AMCPGameMode                                                            *)
(***************************************************************************)
\* no game mode has been constructed
NoGameMode == [state |-> "none", AssetManager |-> 0, bConnectedToServer |-> FALSE]

\* AMCPGameMode::AMCPGameMode, given the pointer UMCPAssetManager::Get() returned
NewGameMode(manager) ==
    [state |-> "constructed", AssetManager |-> manager, bConnectedToServer |-> FALSE]

\* a continuation left with the asset manager: the request it waits for, the
\* function that made it, the call it belongs to, the object whose `this` it
\* captured (0: none), whether the delegate it captured is bound; and, once
\* it has run, the invocations of the delegate, the captures it reached that
\* were gone by then, and what became of that access
Lambda(request, kind, call, this, bBound) ==
    [request |-> request, kind |-> kind, call |-> call, this |-> this, bound |-> bBound,
     ran |-> FALSE, executed |-> <<>>, dangling |-> <<>>, fault |-> "none"]

\* what an access to an object that is gone can come to in the build: the
\* access goes to the memory the object had, or the process is stopped
Faults == {"freed memory accessed", "access violation"}

\* the lambda of StartPlay, run while the game mode is there
StartPlayLambda(gamemode, bSuccess) == [gamemode EXCEPT !.bConnectedToServer = bSuccess]

\* the members of *this the lambda of StartPlay accesses
StartPlayLambdaAccesses(bSuccess) == <<"this->bConnectedToServer">>

\* the lambda of ImportBlenderAsset: the invocations of the delegate it captured
ImportBlenderAssetLambda(bBound, Result) == IF bBound THEN <<Result.bSuccess>> ELSE <<>>

\* the lambda of ImportAllAssetsInDirectory: the locals of the enclosing call it
\* accesses through its reference capture
ImportAllAssetsInDirectoryLambda(Result) ==
    IF ~Result.bSuccess THEN <<"bAllSucceeded">> ELSE <<>>

\* ImportBlenderAsset without the test of bConnectedToServer
ImportBlenderAssetUnguarded(gamemode, AssetPath, DestinationPath, bBound) ==
    IF gamemode.AssetManager = 0
    THEN CallOutcome(IF bBound THEN <<FALSE>> ELSE <<>>, "void", <<>>, <<>>)
    ELSE CallOutcome(<<>>, "void",
             <<ImportBlenderModel(Objects[gamemode.AssetManager], AssetPath,
                                  DestinationPath)>>,
             <<>>)

\* AMCPGameMode::ImportBlenderAsset
ImportBlenderAsset(gamemode, AssetPath, DestinationPath, bBound) ==
    IF gamemode.AssetManager = 0
    THEN CallOutcome(IF bBound THEN <<FALSE>> ELSE <<>>, "void", <<>>, <<>>)
    ELSE IF ~gamemode.bConnectedToServer
    THEN CallOutcome(IF bBound THEN <<FALSE>> ELSE <<>>, "void", <<>>, <<>>)
    ELSE CallOutcome(<<>>, "void",
             <<ImportBlenderModel(Objects[gamemode.AssetManager], AssetPath,
                                  DestinationPath)>>,
             <<>>)

\* AMCPGameMode::ImportAllAssetsInDirectory; Files: what FindFiles found.  The
\* delegate is executed with bAllSucceeded as it is when the loop has ended.
ImportAllAssetsInDirectory(gamemode, DirectoryPath, DestinationPath, Files, bBound) ==
    IF gamemode.AssetManager = 0
    THEN CallOutcome(IF bBound THEN <<FALSE>> ELSE <<>>, "void", <<>>, <<>>)
    ELSE IF ~gamemode.bConnectedToServer
    THEN CallOutcome(IF bBound THEN <<FALSE>> ELSE <<>>, "void", <<>>, <<>>)
    ELSE IF Len(Files) = 0
    THEN CallOutcome(IF bBound THEN <<FALSE>> ELSE <<>>, "void", <<>>, <<>>)
    ELSE CallOutcome(IF bBound THEN <<TRUE>> ELSE <<>>, "void",
             [f \in 1..Len(Files) |->
                 ImportBlenderModel(Objects[gamemode.AssetManager],
                                    PathAppend(DirectoryPath, Files[f]), DestinationPath)],
             <<>>)

\* AMCPGameMode::CreateCustomLevel: the Params it builds go nowhere
CreateCustomLevel(gamemode, LevelName, Template) ==
    IF gamemode.AssetManager = 0
    THEN CallOutcome(<<>>, FALSE, <<>>, <<>>)
    ELSE IF ~gamemode.bConnectedToServer
    THEN CallOutcome(<<>>, FALSE, <<>>, <<>>)
    ELSE CallOutcome(<<>>, TRUE, <<>>, <<>>)

\* AMCPGameMode::SetupLevelWithBlenderAssets: the Params it builds go nowhere
SetupLevelWithBlenderAssets(gamemode, LevelName, LevelType, bBound) ==
    IF gamemode.AssetManager = 0
    THEN CallOutcome(IF bBound THEN <<[bSuccess |-> FALSE, LevelPath |-> EmptyString]>>
                     ELSE <<>>, "void", <<>>, <<>>)
    ELSE IF ~gamemode.bConnectedToServer
    THEN CallOutcome(IF bBound THEN <<[bSuccess |-> FALSE, LevelPath |-> EmptyString]>>
                     ELSE <<>>, "void", <<>>, <<>>)
    ELSE CallOutcome(IF bBound
                     THEN <<[bSuccess |-> TRUE,
                             LevelPath |-> <<"/", "Game", "/", "Levels", "/">> \o LevelName]>>
                     ELSE <<>>, "void", <<>>, <<>>)

(***************************************************************************)
(* AMCPShooterGameMode                                                     *)
(***************************************************************************)
\* no level is open; `level` counts the shooter game modes constructed so far
\* and names the one that is there
NoShooter == [level |-> 0, state |-> "none"]

\* AMCPShooterGameMode::ImportPlayerShipAsset, given the pointer Get() returned
ImportPlayerShipAsset(manager) ==
    ImportBlenderModel(manager, <<"exports", "/", "PlayerShip.fbx">>, GameContent)

\* AMCPShooterGameMode::ImportEnemyShipAsset
ImportEnemyShipAsset(manager) ==
    ImportBlenderModel(manager, <<"exports", "/", "EnemyShip.fbx">>, GameContent)

\* AMCPShooterGameMode::ImportProjectileAsset
ImportProjectileAsset(manager) ==
    ImportBlenderModel(manager, <<"exports", "/", "Projectile.fbx">>, GameContent)

\* the lambda of LoadBlenderAssets importing whatever the probe said
LoadBlenderAssetsLambdaIgnoresProbe(manager, bSuccess) ==
    <<ImportPlayerShipAsset(manager), ImportEnemyShipAsset(manager),
      ImportProjectileAsset(manager)>>

\* the lambda of LoadBlenderAssets: the requests it starts
LoadBlenderAssetsLambda(manager, bSuccess) ==
    IF bSuccess
    THEN <<ImportPlayerShipAsset(manager), ImportEnemyShipAsset(manager),
           ImportProjectileAsset(manager)>>
    ELSE <<>>

(***************************************************************************)
(* The shooter: AMCPShooterGameMode, in the two copies the repository      *)
(* holds: "module" is src/MCPShooterGame/.../MCPShooterGameMode.cpp,       *)
(* "root" is src/MCPShooterGameMode.cpp.  The operators below work on a    *)
(* record w = [game, enemies, player, projectiles] and give the record     *)
(* after the call.  Health, damage and score are whole numbers.            *)
(***************************************************************************)
ShooterCopies == {"module", "root"}

\* AMCPShooterGameMode before a level is open: only what is fixed for the
\* process, the copy that was built and whether the enemy class is there (the
\* static FClassFinder of the module copy, the class defaults of the root copy)
NoShooterGameMode(copy, bEnemyClass) ==
    [copy |-> copy, bEnemyClass |-> bEnemyClass, EnemyClass |-> "nullptr",
     MaxEnemyCount |-> 0, CurrentScore |-> 0, CurrentEnemyCount |-> 0,
     MaxEnemies |-> 0, CurrentEnemies |-> 0, Score |-> 0,
     bGameStarted |-> FALSE, bGameOver |-> FALSE,
     EnemySpawnTimer |-> FALSE, RestartTimer |-> FALSE]

\* AMCPShooterGameMode::AMCPShooterGameMode.  The root copy initialises
\* MaxEnemies and CurrentEnemies and leaves MaxEnemyCount, CurrentEnemyCount
\* and CurrentScore as the allocator of UObjects hands them out: zeroed.
ShooterGameMode(copy, bEnemyClass) ==
    IF copy = "module"
    THEN [NoShooterGameMode(copy, bEnemyClass) EXCEPT
              !.EnemyClass = IF bEnemyClass THEN "AMCPShooterEnemy" ELSE "nullptr",
              !.MaxEnemyCount = 10, !.CurrentScore = 0, !.CurrentEnemyCount = 0,
              !.bGameStarted = FALSE, !.bGameOver = FALSE]
    ELSE [NoShooterGameMode(copy, bEnemyClass) EXCEPT
              !.EnemyClass = IF bEnemyClass THEN "AMCPShooterEnemy" ELSE "nullptr",
              !.MaxEnemies = 10, !.CurrentEnemies = 0, !.Score = 0,
              !.bGameStarted = FALSE, !.bGameOver = FALSE]

\* AMCPShooterCharacter::AMCPShooterCharacter and BeginPlay
NoPlayer == [state |-> "none", Health |-> 0, MaxHealth |-> 0, hidden |-> FALSE,
             collision |-> FALSE]
ShooterCharacter == [state |-> "living", Health |-> 100, MaxHealth |-> 100,
                     hidden |-> FALSE, collision |-> TRUE]

\* AMCPShooterEnemy::AMCPShooterEnemy and BeginPlay; bound: the game mode has
\* added its OnEnemyDestroyed to the enemy's delegate; awarded: the score that
\* destroying it gave; broadcasts: how often it broadcast OnEnemyDestroyed
ShooterEnemy(bound) ==
    [state |-> "living", Health |-> 100, MaxHealth |-> 100, ScoreValue |-> 100,
     bound |-> bound, awarded |-> 0, broadcasts |-> 0]

\* the start of AMCPShooterGameMode::StartGame and SpawnPlayerCharacter: the
\* player's pawn is there afterwards when bPawn holds (the controller has one
\* or SpawnActor gives one)
SpawnPlayerCharacter(w, bPawn) ==
    IF w.player.state = "none" /\ bPawn
    THEN [w EXCEPT !.player = ShooterCharacter]
    ELSE w

\* AMCPShooterGameMode::StartGame (the request of LoadBlenderAssets, which the
\* root copy sends from here, is part of the actions)
StartGame(w, bPawn) ==
    IF w.game.copy = "module"
    THEN IF w.game.bGameStarted \/ w.game.bGameOver
         THEN w
         ELSE SpawnPlayerCharacter(
                  [w EXCEPT !.game.bGameStarted = TRUE, !.game.bGameOver = FALSE,
                            !.game.CurrentScore = 0, !.game.CurrentEnemyCount = 0,
                            !.game.EnemySpawnTimer = TRUE], bPawn)
    ELSE SpawnPlayerCharacter(
             [w EXCEPT !.game.Score = 0, !.game.CurrentEnemies = 0,
                       !.game.bGameStarted = TRUE, !.game.bGameOver = FALSE,
                       !.game.CurrentScore = 0, !.game.CurrentEnemyCount = 0,
                       !.game.EnemySpawnTimer = TRUE], bPawn)

\* Enemy->Destroy() for every enemy GetAllActorsOfClass finds
DestroyAll(enemies) ==
    [e \in 1..Len(enemies) |-> [enemies[e] EXCEPT !.state = "destroyed"]]

\* AMCPShooterGameMode::GameOver
GameOver(w) ==
    IF w.game.copy = "module"
    THEN IF ~w.game.bGameStarted \/ w.game.bGameOver
         THEN w
         ELSE [w EXCEPT !.game.bGameOver = TRUE, !.game.bGameStarted = FALSE,
                        !.game.EnemySpawnTimer = FALSE,
                        !.enemies = DestroyAll(w.enemies)]
    ELSE IF w.game.bGameOver
         THEN w
         ELSE [w EXCEPT !.game.bGameOver = TRUE, !.game.bGameStarted = FALSE,
                        !.game.EnemySpawnTimer = FALSE,
                        !.enemies = DestroyAll(w.enemies),
                        !.game.RestartTimer = TRUE]

\* AMCPShooterGameMode::AddScore
AddScore(w, ScoreToAdd) ==
    IF w.game.copy = "module"
    THEN IF ~w.game.bGameStarted \/ w.game.bGameOver
         THEN w
         ELSE [w EXCEPT !.game.CurrentScore = @ + ScoreToAdd]
    ELSE [w EXCEPT !.game.Score = @ + ScoreToAdd]

\* GetScore
GetScore(game) == IF game.copy = "module" THEN game.CurrentScore ELSE game.Score

\* the timer's handler: AMCPShooterGameMode::SpawnEnemy in the module copy,
\* SpawnEnemyTimerHandler (with SpawnEnemy(SpawnLocation)) in the root copy;
\* bSpawned: SpawnActor gives an actor
SpawnEnemy(w, bSpawned) ==
    IF ~w.game.bGameStarted \/ w.game.bGameOver
    THEN w
    ELSE IF w.game.CurrentEnemyCount >= w.game.MaxEnemyCount
    THEN w
    ELSE IF w.game.EnemyClass = "nullptr"
    THEN w
    ELSE IF w.game.copy = "root" /\ w.player.state = "none"
    THEN w
    ELSE IF bSpawned
    THEN [w EXCEPT !.game.CurrentEnemyCount = @ + 1,
                   !.enemies = Append(@, ShooterEnemy(TRUE))]
    ELSE w

\* OnEnemyDestroyed counting down whatever the count is
OnEnemyDestroyedUnguarded(w, e) ==
    [w EXCEPT !.game.CurrentEnemyCount = @ - 1]

\* AMCPShooterGameMode::OnEnemyDestroyed(DestroyedEnemy), e the enemy
OnEnemyDestroyed(w, e) ==
    IF w.game.CurrentEnemyCount > 0
    THEN IF w.game.copy = "module"
         THEN [w EXCEPT !.game.CurrentEnemyCount = @ - 1]
         ELSE AddScore([w EXCEPT !.game.CurrentEnemyCount = @ - 1],
                       w.enemies[e].ScoreValue)
    ELSE w

\* AMCPShooterEnemy::HandleDestruction: the score, the broadcast to the game
\* mode that bound itself, Destroy()
HandleDestruction(w, e) ==
    LET scored == AddScore(w, w.enemies[e].ScoreValue)
        told   == IF w.enemies[e].bound THEN OnEnemyDestroyed(scored, e) ELSE scored
    IN  [told EXCEPT !.enemies[e].state = "destroyed",
                     !.enemies[e].awarded = @ + (GetScore(told.game) - GetScore(w.game)),
                     !.enemies[e].broadcasts = @ + 1]

\* FMath::Clamp
Clamp(X, Min, Max) == IF X < Min THEN Min ELSE IF X < Max THEN X ELSE Max

\* Super::TakeDamage (APawn): nothing when the pawn should not take the
\* damage, else the amount
SuperTakeDamage(DamageAmount, bShouldTakeDamage) ==
    IF bShouldTakeDamage THEN DamageAmount ELSE 0

\* enemy SetHealth storing what it is given
EnemySetHealthUnclamped(w, e, NewHealth) ==
    IF NewHealth <= 0
    THEN HandleDestruction([w EXCEPT !.enemies[e].Health = NewHealth], e)
    ELSE [w EXCEPT !.enemies[e].Health = NewHealth]

\* AMCPShooterEnemy::SetHealth
EnemySetHealth(w, e, NewHealth) ==
    LET set == [w EXCEPT !.enemies[e].Health = Clamp(NewHealth, 0, w.enemies[e].MaxHealth)]
    IN  IF set.enemies[e].Health <= 0 THEN HandleDestruction(set, e) ELSE set

\* AMCPShooterEnemy::TakeDamage
EnemyTakeDamage(w, e, DamageAmount, bShouldTakeDamage) ==
    IF SuperTakeDamage(DamageAmount, bShouldTakeDamage) > 0
    THEN EnemySetHealth(w, e, w.enemies[e].Health
                                  - SuperTakeDamage(DamageAmount, bShouldTakeDamage))
    ELSE w

\* AMCPShooterCharacter::SetHealth
CharacterSetHealth(w, NewHealth) ==
    LET set == [w EXCEPT !.player.Health = Clamp(NewHealth, 0, w.player.MaxHealth)]
    IN  IF set.player.Health <= 0
        THEN [GameOver(set) EXCEPT !.player.hidden = TRUE, !.player.collision = FALSE]
        ELSE set

\* AMCPShooterCharacter::TakeDamage
CharacterTakeDamage(w, DamageAmount, bShouldTakeDamage) ==
    IF SuperTakeDamage(DamageAmount, bShouldTakeDamage) > 0
    THEN CharacterSetHealth(w, w.player.Health
                                   - SuperTakeDamage(DamageAmount, bShouldTakeDamage))
    ELSE w

\* AMCPShooterEnemy::OnHit with the player as the other actor (AttackDamage 10,
\* doubled)
EnemyOnHit(w, e, bShouldTakeDamage) ==
    HandleDestruction(CharacterTakeDamage(w, 10 * 2, bShouldTakeDamage), e)

\* AMCPShooterCharacter::OnHit with enemy e as the other actor (CollisionDamage 10)
CharacterOnHit(w, e, bShouldTakeDamage) ==
    HandleDestruction(CharacterTakeDamage(w, 10, bShouldTakeDamage), e)

\* the actors a hit can name
NoActor == [class |-> "nullptr", id |-> 0]
PlayerActor == [class |-> "AMCPShooterCharacter", id |-> 0]
EnemyActor(e) == [class |-> "AMCPShooterEnemy", id |-> e]
ProjectileActor(p) == [class |-> "AMCPShooterProjectile", id |-> p]
WallActor == [class |-> "AStaticMeshActor", id |-> 0]

\* AMCPShooterProjectile::AMCPShooterProjectile with the owner of the spawn
\* parameters, and SetIsEnemyProjectile; damaged: the actors whose TakeDamage
\* the projectile has called
ShooterProjectile(Owner, bIsEnemyProjectile) ==
    [state |-> "flying", Owner |-> Owner, bIsEnemyProjectile |-> bIsEnemyProjectile,
     Damage |-> 10, damaged |-> <<>>]

\* OnHit without the test of the other actor
ProjectileOnHitAnyActor(w, p, OtherActor, bShouldTakeDamage) ==
    LET hit == IF w.projectiles[p].bIsEnemyProjectile
               THEN IF OtherActor.class = "AMCPShooterCharacter"
                    THEN [CharacterTakeDamage(w, w.projectiles[p].Damage, bShouldTakeDamage)
                             EXCEPT !.projectiles[p].damaged = Append(@, OtherActor)]
                    ELSE w
               ELSE IF OtherActor.class = "AMCPShooterEnemy"
                    THEN [EnemyTakeDamage(w, OtherActor.id, w.projectiles[p].Damage,
                                          bShouldTakeDamage)
                             EXCEPT !.projectiles[p].damaged = Append(@, OtherActor)]
                    ELSE w
    IN  [hit EXCEPT !.projectiles[p].state = "destroyed"]

\* AMCPShooterProjectile::OnHit of projectile p
ProjectileOnHit(w, p, OtherActor, bShouldTakeDamage) ==
    IF /\ OtherActor # NoActor
       /\ OtherActor # ProjectileActor(p)
       /\ OtherActor # w.projectiles[p].Owner
    THEN LET hit == IF w.projectiles[p].bIsEnemyProjectile
                    THEN IF OtherActor.class = "AMCPShooterCharacter"
                         THEN [CharacterTakeDamage(w, w.projectiles[p].Damage,
                                                   bShouldTakeDamage)
                                  EXCEPT !.projectiles[p].damaged = Append(@, OtherActor)]
                         ELSE w
                    ELSE IF OtherActor.class = "AMCPShooterEnemy"
                         THEN [EnemyTakeDamage(w, OtherActor.id, w.projectiles[p].Damage,
                                               bShouldTakeDamage)
                                  EXCEPT !.projectiles[p].damaged = Append(@, OtherActor)]
                         ELSE w
         IN  [hit EXCEPT !.projectiles[p].state = "destroyed"]
    ELSE w

\* AMCPShooterEnemy::Fire (owner the enemy, SetIsEnemyProjectile(true)) and
\* AMCPShooterCharacter::Fire (owner the player); bSpawned: the projectile
\* class is set and SpawnActor gives an actor
Fire(w, Owner, bSpawned) ==
    IF bSpawned
    THEN [w EXCEPT !.projectiles =
              Append(@, ShooterProjectile(Owner, Owner.class = "AMCPShooterEnemy"))]
    ELSE w

\* the shooter as the operators see it, and the step that leaves it as w and
\* notes in Did what was called, with which arguments
TheShooter == [game |-> Game, enemies |-> Enemies, player |-> Player,
               projectiles |-> Projectiles]

Becomes(did, w) ==
    /\ Game' = w.game
    /\ Enemies' = w.enemies
    /\ Player' = w.player
    /\ Projectiles' = w.projectiles
    /\ Did' = did

\* what the shooter's own operations leave alone
Bridge == <<Instance, Objects, Client, ConfigFile, ConfigReads, Returned, Requests,
            LastSetURL, GameThreadTasks, World, Placements, Facade, WITH_EDITOR>>


(***************************************************************************)
(* The game modes: their lives, the calls made on them, their lambdas      *)
(***************************************************************************)
DirectoryPaths == {<<"exports">>}
FbxListings == {<<>>, <<<<"PlayerShip.fbx">>>>, <<<<"PlayerShip.fbx">>, <<"EnemyShip.fbx">>>>}
LevelNames == {<<"Arena">>}
LevelTypes == {<<"shooter">>}

\* the record of a call on the game mode: with what, the pointer and the flag
\* the game mode held, and what the call did
GameModeCallRecord(op, args, bBound, gamemode, outcome) ==
    [op |-> op, args |-> args, bound |-> bBound, manager |-> gamemode.AssetManager,
     connected |-> gamemode.bConnectedToServer,
     executed |-> outcome.executed, value |-> outcome.value,
     started |-> Len(outcome.started), spawned |-> Len(outcome.spawned)]

\* the call takes effect: its requests are with the HTTP stack, each with the
\* lambda the call handed to the asset manager
GameModeCalled(record, bBound, outcome) ==
    /\ Len(Requests) + Len(outcome.started) <= MaxGameRequests
    /\ Calls' = Append(Calls, record)
    /\ Requests' = Requests \o outcome.started
    /\ Lambdas' = Lambdas \o [j \in 1..Len(outcome.started) |->
                                Lambda(Len(Requests) + j, record.op, Len(Calls) + 1, 0, bBound)]
    /\ UNCHANGED <<WITH_EDITOR, ShooterGame, Instance, Objects, Client, ConfigFile, ConfigReads, Returned, LastSetURL,
                   GameThreadTasks, World, Placements, Component, GameMode, Shooter>>

\* the level's game mode is constructed
ConstructGameMode ==
    /\ GameMode.state = "none"
    /\ GetCalled
    /\ GameMode' = NewGameMode(Instance')
    /\ UNCHANGED <<WITH_EDITOR, ShooterGame, Client, ConfigFile, Requests, LastSetURL, GameThreadTasks, World,
                   Placements, Component, Calls, Shooter, Lambdas>>

\* AMCPGameMode::StartPlay
StartPlay ==
    /\ GameMode.state = "constructed"
    /\ GameMode' = [GameMode EXCEPT !.state = "playing"]
    /\ IF GameMode.AssetManager # 0
       THEN /\ Requests' = Append(Requests,
                                  CheckServerConnection(Objects[GameMode.AssetManager]))
            /\ Lambdas' = Append(Lambdas, Lambda(Len(Requests) + 1, "StartPlay", 0, 1, FALSE))
       ELSE UNCHANGED <<Requests, Lambdas>>
    /\ UNCHANGED <<WITH_EDITOR, ShooterGame, Instance, Objects, Client, ConfigFile, ConfigReads, Returned, LastSetURL,
                   GameThreadTasks, World, Placements, Component, Calls, Shooter>>

\* AMCPGameMode::EndPlay: the level is left and the game mode destroyed with it
EndPlay ==
    /\ GameMode.state = "playing"
    /\ GameMode' = [GameMode EXCEPT !.state = "ended"]
    /\ UNCHANGED <<WITH_EDITOR, ShooterGame, Instance, Objects, Client, ConfigFile, ConfigReads, Returned, Requests,
                   LastSetURL, GameThreadTasks, World, Placements, Component, Calls,
                   Shooter, Lambdas>>

CallImportBlenderAsset(DestinationPath, bBound) ==
    /\ GameMode.state \in {"constructed", "playing"}
    /\ Len(Calls) < MaxCalls
    /\ \E AssetPath \in ModelPaths :
          GameModeCalled(
              GameModeCallRecord("ImportBlenderAsset",
                  [AssetPath |-> AssetPath, DestinationPath |-> DestinationPath],
                  bBound, GameMode,
                  ImportBlenderAsset(GameMode, AssetPath, DestinationPath, bBound)),
              bBound, ImportBlenderAsset(GameMode, AssetPath, DestinationPath, bBound))

CallImportAllAssetsInDirectory(Files, bBound) ==
    /\ GameMode.state \in {"constructed", "playing"}
    /\ Len(Calls) < MaxCalls
    /\ \E DirectoryPath \in DirectoryPaths :
          GameModeCalled(
              GameModeCallRecord("ImportAllAssetsInDirectory",
                  [DirectoryPath |-> DirectoryPath, DestinationPath |-> GameContent,
                   Files |-> Files],
                  bBound, GameMode,
                  ImportAllAssetsInDirectory(GameMode, DirectoryPath, GameContent, Files,
                                             bBound)),
              bBound,
              ImportAllAssetsInDirectory(GameMode, DirectoryPath, GameContent, Files, bBound))

CallCreateCustomLevel ==
    /\ GameMode.state \in {"constructed", "playing"}
    /\ Len(Calls) < MaxCalls
    /\ \E LevelName \in LevelNames, Template \in LevelTypes :
          GameModeCalled(
              GameModeCallRecord("CreateCustomLevel",
                  [LevelName |-> LevelName, Template |-> Template], FALSE, GameMode,
                  CreateCustomLevel(GameMode, LevelName, Template)),
              FALSE, CreateCustomLevel(GameMode, LevelName, Template))

CallSetupLevelWithBlenderAssets(bBound) ==
    /\ GameMode.state \in {"constructed", "playing"}
    /\ Len(Calls) < MaxCalls
    /\ \E LevelName \in LevelNames, LevelType \in LevelTypes :
          GameModeCalled(
              GameModeCallRecord("SetupLevelWithBlenderAssets",
                  [LevelName |-> LevelName, LevelType |-> LevelType], bBound, GameMode,
                  SetupLevelWithBlenderAssets(GameMode, LevelName, LevelType, bBound)),
              bBound, SetupLevelWithBlenderAssets(GameMode, LevelName, LevelType, bBound))

\* a level is opened (at start, or by RestartGame's OpenLevel): the game mode
\* of the level left is destroyed and one is constructed for the level opened
OpenLevel ==
    /\ Shooter.state \in {"none", "playing"}
    /\ Shooter.level < MaxLevels
    /\ Shooter' = [level |-> Shooter.level + 1, state |-> "constructed"]
    /\ Becomes([op |-> "OpenLevel"],
               [game |-> ShooterGameMode(Game.copy, Game.bEnemyClass), enemies |-> <<>>,
                player |-> NoPlayer, projectiles |-> <<>>])
    /\ UNCHANGED <<WITH_EDITOR, Instance, Objects, Client, ConfigFile, ConfigReads, Returned, Requests,
                   LastSetURL, GameThreadTasks, World, Placements, Component, Calls,
                   GameMode, Lambdas>>

\* AMCPShooterGameMode::BeginPlay: LoadBlenderAssets (the manager is fetched
\* and asked to probe the server) and StartGame, in the order of the module
\* copy; the root copy calls LoadBlenderAssets from within StartGame
ShooterBeginPlay(bPawn) ==
    /\ Shooter.state = "constructed"
    /\ Shooter' = [Shooter EXCEPT !.state = "playing"]
    /\ GetCalled
    /\ Requests' = Append(Requests, CheckServerConnection(Objects'[Instance']))
    /\ Lambdas' = Append(Lambdas,
                         Lambda(Len(Requests) + 1, "LoadBlenderAssets", 0, Shooter.level, FALSE))
    /\ Becomes([op |-> "BeginPlay"], StartGame(TheShooter, bPawn))
    /\ UNCHANGED <<WITH_EDITOR, Client, ConfigFile, LastSetURL, GameThreadTasks, World, Placements,
                   Component, Calls, GameMode>>

\* the request after the HTTP stack has completed it and its lambdas have run
CompletedRequest(request, Http, AssetData) ==
    [request EXCEPT !.state = "completed",
                    !.http = Http,
                    !.transport = IF request.verb = "GET"
                                  THEN SendGetRequestComplete(Http)
                                  ELSE SendPostRequestComplete(Http),
                    !.registry = [asked |-> AsksRegistry(request, Http),
                                  AssetData |-> AssetData],
                    !.delivered = @ \o Delivered(request, Http, AssetData)]

\* whether what the lambda captured by pointer or by reference is gone: the
\* game mode of StartPlay once it has ended play, the shooter game mode once
\* its level has been left, the local of ImportAllAssetsInDirectory in every
\* case (the HTTP stack completes no request inside the call that started it)
OwnerGone(lambda) ==
    CASE lambda.kind = "StartPlay" -> GameMode.state = "ended"
      [] lambda.kind = "LoadBlenderAssets" -> Shooter.level # lambda.this
      [] lambda.kind = "ImportAllAssetsInDirectory" -> TRUE
      [] OTHER -> FALSE

\* the fields and locals the lambda reads or writes through those captures;
\* the lambda of LoadBlenderAssets calls member functions that touch none
Accesses(lambda, Result) ==
    CASE lambda.kind = "StartPlay" -> StartPlayLambdaAccesses(Result.bSuccess)
      [] lambda.kind = "ImportAllAssetsInDirectory" -> ImportAllAssetsInDirectoryLambda(Result)
      [] OTHER -> <<>>

Dangling(lambda, Result) == IF OwnerGone(lambda) THEN Accesses(lambda, Result) ELSE <<>>

\* the lambdas Import*Asset hand over, in the order LoadBlenderAssets calls them
ShooterImports == <<"ImportPlayerShipAsset", "ImportEnemyShipAsset", "ImportProjectileAsset">>

\* what the asset registry holds while a game mode plays
RegistryOfLevel == {<<"PlayerShip">>}

\* the HTTP stack completes a request of a game mode: the lambdas of the client
\* and of the asset manager run (Registry: what the asset registry holds, if it
\* is asked), then the lambda the game mode handed over
RunContinuation(i, Http, Registry) ==
    /\ Requests[i].state = "processing"
    /\ \E l \in 1..Len(Lambdas) :
          /\ Lambdas[l].request = i
          /\ \E AssetData \in (IF AsksRegistry(Requests[i], Http)
                               THEN {Registry} ELSE {<<>>}) :
                LET done == CompletedRequest(Requests[i], Http, AssetData)
                    Result == done.delivered[Len(done.delivered)]
                    started == IF Lambdas[l].kind = "LoadBlenderAssets"
                               THEN LoadBlenderAssetsLambda(Objects[Instance], Result.bSuccess)
                               ELSE <<>>
                IN  /\ \E fault \in (IF Dangling(Lambdas[l], Result) = <<>>
                                     THEN {"none"} ELSE Faults) :
                          Lambdas' =
                              [Lambdas EXCEPT ![l] =
                                  [@ EXCEPT !.ran = TRUE,
                                            !.executed =
                                                IF Lambdas[l].kind = "ImportBlenderAsset"
                                                THEN ImportBlenderAssetLambda(
                                                         Lambdas[l].bound, Result)
                                                ELSE <<>>,
                                            !.dangling = Dangling(Lambdas[l], Result),
                                            !.fault = fault]]
                              \o [j \in 1..Len(started) |->
                                     Lambda(Len(Requests) + j, ShooterImports[j], 0, 0, FALSE)]
                    /\ Requests' = [Requests EXCEPT ![i] = done] \o started
                    /\ GameMode' = IF Lambdas[l].kind = "StartPlay" /\ ~OwnerGone(Lambdas[l])
                                   THEN StartPlayLambda(GameMode, Result.bSuccess)
                                   ELSE GameMode
                    /\ IF started # <<>>
                       THEN GetCalled
                       ELSE UNCHANGED <<Instance, Objects, ConfigReads, Returned>>
    /\ UNCHANGED <<WITH_EDITOR, ShooterGame, Client, ConfigFile, LastSetURL, GameThreadTasks, World, Placements,
                   Component, Calls, Shooter>>

(***************************************************************************)
(* The shooter: what happens while a level plays                           *)
(***************************************************************************)
ScoresToAdd == {50}
NewHealths == {0 - 10, 0, 50, 150}
DamageAmounts == {0 - 10, 0, 50, 150}

\* StartGame called when the level plays (it is BlueprintCallable); the root
\* copy calls LoadBlenderAssets from it
CallStartGame(bPawn) ==
    /\ Shooter.state = "playing"
    /\ IF Game.copy = "root"
       THEN /\ Len(Requests) < MaxGameRequests
            /\ GetCalled
            /\ Requests' = Append(Requests, CheckServerConnection(Objects'[Instance']))
            /\ Lambdas' = Append(Lambdas,
                                 Lambda(Len(Requests) + 1, "LoadBlenderAssets", 0,
                                        Shooter.level, FALSE))
       ELSE UNCHANGED <<Instance, Objects, ConfigReads, Returned, Requests, Lambdas>>
    /\ Becomes([op |-> "StartGame"], StartGame(TheShooter, bPawn))
    /\ UNCHANGED <<Client, ConfigFile, LastSetURL, GameThreadTasks, World, Placements,
                   Component, Calls, GameMode, Shooter, WITH_EDITOR>>

\* GameOver called from outside the player's SetHealth (it is BlueprintCallable)
CallGameOver ==
    /\ Shooter.state \in {"constructed", "playing"}
    /\ Becomes([op |-> "GameOver"], GameOver(TheShooter))
    /\ UNCHANGED Bridge

\* AddScore called from outside HandleDestruction (it is BlueprintCallable)
CallAddScore(ScoreToAdd) ==
    /\ Shooter.state = "playing"
    /\ GetScore(Game) < MaxScore
    /\ Becomes([op |-> "AddScore"], AddScore(TheShooter, ScoreToAdd))
    /\ UNCHANGED Bridge

\* the spawn timer fires, or SpawnEnemy is called (the module copy defines the
\* BlueprintCallable SpawnEnemy(), the root copy only the timer's handler)
CallSpawnEnemy(From, bSpawned) ==
    /\ Shooter.state = "playing"
    /\ IF From = "timer" THEN Game.EnemySpawnTimer ELSE Game.copy = "module"
    /\ Becomes([op |-> "SpawnEnemy", From |-> From, bSpawned |-> bSpawned,
                CurrentEnemyCount |-> Game.CurrentEnemyCount],
               SpawnEnemy(TheShooter, bSpawned))
    /\ UNCHANGED Bridge

\* SetHealth of a living enemy
CallEnemySetHealth(e, NewHealth) ==
    /\ e \in 1..Len(Enemies)
    /\ Enemies[e].state = "living"
    /\ Becomes([op |-> "EnemySetHealth", e |-> e, NewHealth |-> NewHealth],
               EnemySetHealth(TheShooter, e, NewHealth))
    /\ UNCHANGED Bridge

\* SetHealth of the player
CallCharacterSetHealth(NewHealth) ==
    /\ Player.state = "living"
    /\ Becomes([op |-> "CharacterSetHealth", NewHealth |-> NewHealth],
               CharacterSetHealth(TheShooter, NewHealth))
    /\ UNCHANGED Bridge

\* TakeDamage of the player, from any causer
CallCharacterTakeDamage(DamageAmount, bShouldTakeDamage) ==
    /\ Player.state = "living"
    /\ Becomes([op |-> "CharacterTakeDamage", DamageAmount |-> DamageAmount],
               CharacterTakeDamage(TheShooter, DamageAmount, bShouldTakeDamage))
    /\ UNCHANGED Bridge

\* TakeDamage of a living enemy, from any causer
CallEnemyTakeDamage(e, DamageAmount, bShouldTakeDamage) ==
    /\ e \in 1..Len(Enemies)
    /\ Enemies[e].state = "living"
    /\ Becomes([op |-> "EnemyTakeDamage", e |-> e, DamageAmount |-> DamageAmount],
               EnemyTakeDamage(TheShooter, e, DamageAmount, bShouldTakeDamage))
    /\ UNCHANGED Bridge

\* a living enemy and the player collide.  The engine notifies the actor that
\* moved first and then the actor it hit, if the component that was hit is
\* still valid: when the enemy moved, its OnHit runs and then the player's;
\* when the player moved, its OnHit destroys the enemy and the enemy's OnHit
\* is not run.
Collide(e, Mover, bShouldTakeDamage) ==
    /\ e \in 1..Len(Enemies)
    /\ Enemies[e].state = "living"
    /\ Player.state = "living" /\ Player.collision
    /\ Becomes([op |-> "Collide", e |-> e, Mover |-> Mover],
               IF Mover = "enemy"
               THEN CharacterOnHit(EnemyOnHit(TheShooter, e, bShouldTakeDamage), e,
                                   bShouldTakeDamage)
               ELSE CharacterOnHit(TheShooter, e, bShouldTakeDamage))
    /\ UNCHANGED Bridge

\* the actors that can fire: the player and the living enemies
Shooters ==
    (IF Player.state = "living" /\ ~Player.hidden THEN {PlayerActor} ELSE {})
        \cup {EnemyActor(e) : e \in {i \in 1..Len(Enemies) : Enemies[i].state = "living"}}

\* Fire of the player or of an enemy
CallFire(Owner, bSpawned) ==
    /\ Owner \in Shooters
    /\ Len(Projectiles) < MaxProjectiles
    /\ Becomes([op |-> "Fire", Owner |-> Owner], Fire(TheShooter, Owner, bSpawned))
    /\ UNCHANGED Bridge

\* the actors a projectile can run into: the player while it collides, the
\* living enemies, the other flying projectiles, the scenery; and what the
\* guard of OnHit is written for: no actor, the projectile itself
Obstacles(p) ==
    {NoActor, ProjectileActor(p), WallActor}
        \cup (IF Player.state = "living" /\ Player.collision THEN {PlayerActor} ELSE {})
        \cup {EnemyActor(e) : e \in {i \in 1..Len(Enemies) : Enemies[i].state = "living"}}
        \cup {ProjectileActor(q) :
                 q \in {i \in 1..Len(Projectiles) : Projectiles[i].state = "flying"}}

\* the collision component of a flying projectile reports a hit
ProjectileHit(p, OtherActor, bShouldTakeDamage) ==
    /\ p \in 1..Len(Projectiles)
    /\ Projectiles[p].state = "flying"
    /\ OtherActor \in Obstacles(p)
    /\ Becomes([op |-> "ProjectileOnHit", p |-> p, OtherActor |-> OtherActor],
               ProjectileOnHit(TheShooter, p, OtherActor, bShouldTakeDamage))
    /\ UNCHANGED Bridge

(***************************************************************************)
(* Specifications                                                          *)
(***************************************************************************)
\* the state after start-up: the build (with or without editor support, with
\* one of the two copies of the shooter's game mode) and an empty world
InitProcess(ConfigDocs, Builds, Copies, EnemyClasses) ==
    /\ Instance = 0
    /\ Objects = <<>>
    /\ Client = NewClient
    /\ ConfigFile \in ConfigDocs
    /\ ConfigReads = <<>>
    /\ Returned = [op |-> "none", pointer |-> 0, value |-> FALSE,
                   config |-> NoFile, constructed |-> FALSE]
    /\ Requests = <<>>
    /\ LastSetURL = NewClient.ServerURL
    /\ GameThreadTasks = <<>>
    /\ World = <<>>
    /\ Placements = <<>>
    /\ Component = NewComponent
    /\ Calls = <<>>
    /\ GameMode = NoGameMode
    /\ Shooter = NoShooter
    /\ Lambdas = <<>>
    /\ WITH_EDITOR \in Builds
    /\ Game \in {NoShooterGameMode(copy, bEnemyClass) :
                     copy \in Copies, bEnemyClass \in EnemyClasses}
    /\ Enemies = <<>>
    /\ Player = NoPlayer
    /\ Projectiles = <<>>
    /\ Did = [op |-> "none"]

\* the build whose shooter is the module copy, with its enemy class found
InitBuild(ConfigDocs, Builds) == InitProcess(ConfigDocs, Builds, {"module"}, {TRUE})

\* the editor build: MCPAssetManager.cpp includes Editor.h and
\* EditorLevelLibrary.h unconditionally
InitWith(ConfigDocs) == InitBuild(ConfigDocs, {TRUE})

\* The exchanges: every operation, every answer of the server.
Init == InitWith({NoFile})

Next ==
    \/ Get
    \/ CallCheckConnection
    \/ CallExecuteBlenderCommand
    \/ CallImportAsset
    \/ CallSetGameMode
    \/ CallSaveLevel
    \/ CallCheckServerConnection
    \/ CallImportBlenderModel(GameContent)
    \/ \E i \in 1..Len(Requests) :
          \E Http \in HttpResultsFor(Requests[i].op) : OnProcessRequestComplete(i, Http)

Spec == Init /\ [][Next]_vars

\* The imports: every destination, every answer of the server.
InitImport == InitWith({NoFile})

NextImport ==
    \/ Get
    \/ CallImportAsset
    \/ \E DestinationPath \in DestinationPaths : CallImportBlenderModel(DestinationPath)
    \/ \E i \in 1..Len(Requests) :
          \E Http \in HttpResultsFor(Requests[i].op) : OnProcessRequestComplete(i, Http)

SpecImport == InitImport /\ [][NextImport]_vars

\* The client's URL: SetServerURL between the calls of a caller's own client.
InitUrl == InitWith({NoFile})

NextUrl ==
    \/ \E InServerURL \in ServerURLs : CallSetServerURL(InServerURL)
    \/ CallCheckConnection
    \/ CallExecuteBlenderCommand
    \/ CallImportAsset
    \/ CallSetGameMode
    \/ CallSaveLevel
    \/ \E i \in 1..Len(Requests) :
          \E Http \in HttpResultsShort : OnProcessRequestComplete(i, Http)

SpecUrl == InitUrl /\ [][NextUrl]_vars

\* The singleton and its configuration.
InitManager == InitWith(ConfigFiles)

NextManager ==
    \/ Get
    \/ CallInitialize
    \/ \E ConfigDoc \in ConfigFiles : ConfigChange(ConfigDoc)
    \/ CallCheckServerConnection
    \/ CallImportBlenderModel(GameContent)
    \/ \E i \in 1..Len(Requests) :
          \E Http \in HttpResultsShort : OnProcessRequestComplete(i, Http)

SpecManager == InitManager /\ [][NextManager]_vars

\* The placements: callers on the game thread and on worker threads.
InitPlace == InitWith({NoFile})

NextPlace ==
    \/ Get
    \/ \E Thread \in Threads, AssetPath \in AssetPaths, ActorName \in ActorNames,
          bWorld \in BOOLEAN, bSpawned \in BOOLEAN :
          CallPlaceAssetInLevel(Thread, AssetPath, ActorName, bWorld, bSpawned)
    \/ \E bWorld \in BOOLEAN, bSpawned \in BOOLEAN : RunGameThreadTask(bWorld, bSpawned)

SpecPlace == InitPlace /\ [][NextPlace]_vars

\* The placements under the game thread's scheduling: the engine runs the tasks
\* queued for ENamedThreads::GameThread on every tick, so a queued task is not
\* left waiting forever.  The callers place a mesh, a blueprint or an asset
\* that does not exist, without a label.
InitPlaceFair == InitWith({NoFile})

NextPlaceFair ==
    \/ Get
    \/ \E Thread \in Threads, AssetPath \in {MeshPath, BlueprintPath, MissingPath},
          bWorld \in BOOLEAN, bSpawned \in BOOLEAN :
          CallPlaceAssetInLevel(Thread, AssetPath, EmptyString, bWorld, bSpawned)
    \/ \E bWorld \in BOOLEAN, bSpawned \in BOOLEAN : RunGameThreadTask(bWorld, bSpawned)

SpecPlaceFair ==
    /\ InitPlaceFair
    /\ [][NextPlaceFair]_vars
    /\ WF_vars(\E bWorld \in BOOLEAN, bSpawned \in BOOLEAN :
                   RunGameThreadTask(bWorld, bSpawned))

\* The placements in either build, with and without editor support.
InitPlaceBuild == InitBuild({NoFile}, BOOLEAN)

NextPlaceBuild ==
    \/ Get
    \/ \E Thread \in Threads, AssetPath \in AssetPaths, bWorld \in BOOLEAN, bSpawned \in BOOLEAN :
          CallPlaceAssetInLevel(Thread, AssetPath, EmptyString, bWorld, bSpawned)
    \/ \E bWorld \in BOOLEAN, bSpawned \in BOOLEAN : RunGameThreadTask(bWorld, bSpawned)

SpecPlaceBuild == InitPlaceBuild /\ [][NextPlaceBuild]_vars

\* The manager's game mode and imports, called again and again.
InitGameMode == InitWith({NoFile})

HttpResultsGameMode(op) ==
    IF op = "ImportBlenderModel"
    THEN {HttpResult(FALSE, FALSE, 0, ""), OkResponse(TextImported)}
    ELSE HttpResultsShort

NextGameMode ==
    \/ Get
    \/ \E Class \in GameModeClasses : CallAssetManagerSetGameMode(Class)
    \/ \E DestinationPath \in DestinationPaths : CallImportBlenderModel(DestinationPath)
    \/ \E i \in 1..Len(Requests) :
          \E Http \in HttpResultsGameMode(Requests[i].op) : OnProcessRequestComplete(i, Http)

SpecGameMode == InitGameMode /\ [][NextGameMode]_vars

\* The gameplay component of an actor: spawned, begun, called.
InitComponent == InitWith({NoFile})

NextComponent ==
    \/ OwnerInitializeComponents
    \/ CallInitializeComponent
    \/ ComponentBeginPlay
    \/ \E AssetPath \in AssetPaths, bBound \in BOOLEAN : CallLoadBlenderAsset(AssetPath, bBound)
    \/ \E AssetPath \in AssetPaths, bWorld \in BOOLEAN, bSpawned \in BOOLEAN :
          CallSpawnAssetActor(AssetPath, bWorld, bSpawned)
    \/ \E bBound \in BOOLEAN : CallSpawnCustomBlenderAsset(bBound)
    \/ \E i \in 1..Len(Requests) :
          \E Http \in HttpResultsShort : OnProcessRequestComplete(i, Http)

SpecComponent == InitComponent /\ [][NextComponent]_vars

\* The plugin's game mode: constructed, started, called, ended, with every
\* order of the answers.
InitAMCPGameMode == InitWith({NoFile})

NextAMCPGameMode ==
    \/ ConstructGameMode
    \/ StartPlay
    \/ EndPlay
    \/ \E bBound \in BOOLEAN : CallImportBlenderAsset(GameContent, bBound)
    \/ \E Files \in FbxListings : CallImportAllAssetsInDirectory(Files, TRUE)
    \/ CallCreateCustomLevel
    \/ \E bBound \in BOOLEAN : CallSetupLevelWithBlenderAssets(bBound)
    \/ \E i \in 1..Len(Requests) :
          \E Http \in HttpResultsGameMode(Requests[i].op), Registry \in RegistryOfLevel :
              RunContinuation(i, Http, Registry)

SpecAMCPGameMode == InitAMCPGameMode /\ [][NextAMCPGameMode]_vars

\* The shooter's game mode: levels opened one after the other, each with its
\* probe and the imports behind it.
InitShooter == InitWith({NoFile})

NextShooter ==
    \/ OpenLevel
    \/ ShooterBeginPlay(TRUE)
    \/ \E i \in 1..Len(Requests) :
          \E Http \in HttpResultsGameMode(Requests[i].op), Registry \in RegistryOfLevel :
              RunContinuation(i, Http, Registry)

SpecShooter == InitShooter /\ [][NextShooter]_vars

\* The shooter's game: either copy of the game mode, with or without an enemy
\* class; the game is started and ended, enemies are spawned, destroyed by
\* SetHealth and by running into the player, the score is added to.
InitGame == InitProcess({NoFile}, {TRUE}, ShooterCopies, BOOLEAN)

NextGame ==
    \/ OpenLevel
    \/ \E bPawn \in BOOLEAN : ShooterBeginPlay(bPawn)
    \/ \E bPawn \in BOOLEAN : CallStartGame(bPawn)
    \/ CallGameOver
    \/ \E ScoreToAdd \in ScoresToAdd : CallAddScore(ScoreToAdd)
    \/ \E From \in {"timer", "caller"}, bSpawned \in BOOLEAN :
          Len(Enemies) < MaxSpawns /\ CallSpawnEnemy(From, bSpawned)
    \/ \E e \in 1..Len(Enemies), NewHealth \in NewHealths : CallEnemySetHealth(e, NewHealth)
    \/ \E NewHealth \in NewHealths : CallCharacterSetHealth(NewHealth)
    \/ \E e \in 1..Len(Enemies), Mover \in {"enemy", "player"}, bShouldTakeDamage \in BOOLEAN :
          Collide(e, Mover, bShouldTakeDamage)

SpecGame == InitGame /\ [][NextGame]_vars

\* the living enemies, and the one spawned first among them
Living == {e \in 1..Len(Enemies) : Enemies[e].state = "living"}
FirstLiving == CHOOSE e \in Living : \A f \in Living : e <= f

\* The enemy cap: in one level enemies are spawned until the cap stops the
\* spawning, and fly into the player one after the other, oldest first;
\* MaxSpawns more than the cap are spawned.
InitSpawn == InitProcess({NoFile}, {TRUE}, ShooterCopies, BOOLEAN)

NextSpawn ==
    \/ Shooter.state = "none" /\ OpenLevel
    \/ ShooterBeginPlay(TRUE)
    \/ CallGameOver
    \/ \E From \in {"timer", "caller"}, bSpawned \in BOOLEAN :
          Len(Enemies) <= Game.MaxEnemyCount + MaxSpawns /\ CallSpawnEnemy(From, bSpawned)
    \/ \E bShouldTakeDamage \in BOOLEAN :
          Living # {} /\ Collide(FirstLiving, "enemy", bShouldTakeDamage)

SpecSpawn == InitSpawn /\ [][NextSpawn]_vars

\* The spawn timer: one level with an enemy class, in which no enemy is
\* destroyed before the game is over.  The timer StartGame sets is a looping
\* one: as long as it is set it keeps ticking, and a tick for which SpawnActor
\* gives an actor comes again and again.
InitSpawnFair == InitProcess({NoFile}, {TRUE}, ShooterCopies, {TRUE})

NextSpawnFair ==
    \/ Shooter.state = "none" /\ OpenLevel
    \/ \E bPawn \in BOOLEAN : ShooterBeginPlay(bPawn)
    \/ CallGameOver
    \/ \E ScoreToAdd \in ScoresToAdd : CallAddScore(ScoreToAdd)
    \/ \E bSpawned \in BOOLEAN : CallSpawnEnemy("timer", bSpawned)

SpecSpawnFair ==
    InitSpawnFair /\ [][NextSpawnFair]_vars /\ WF_vars(CallSpawnEnemy("timer", TRUE))

\* Health: one level in which health is set and damage is dealt: SetHealth
\* and TakeDamage of the player and of the enemies, called with amounts below,
\* within and above the range.
InitHealth == InitProcess({NoFile}, {TRUE}, ShooterCopies, {TRUE})

NextHealth ==
    \/ Shooter.state = "none" /\ OpenLevel
    \/ ShooterBeginPlay(TRUE)
    \/ \E bSpawned \in BOOLEAN :
          Len(Enemies) < MaxSpawns /\ CallSpawnEnemy("timer", bSpawned)
    \/ \E e \in 1..Len(Enemies), NewHealth \in NewHealths : CallEnemySetHealth(e, NewHealth)
    \/ \E NewHealth \in NewHealths : CallCharacterSetHealth(NewHealth)
    \/ \E e \in 1..Len(Enemies), DamageAmount \in DamageAmounts, bShouldTakeDamage \in BOOLEAN :
          CallEnemyTakeDamage(e, DamageAmount, bShouldTakeDamage)
    \/ \E DamageAmount \in DamageAmounts, bShouldTakeDamage \in BOOLEAN :
          CallCharacterTakeDamage(DamageAmount, bShouldTakeDamage)

SpecHealth == InitHealth /\ [][NextHealth]_vars

\* Combat: one level in which the player and the enemies fire and the
\* projectiles hit whatever is in their way.
InitCombat == InitProcess({NoFile}, {TRUE}, ShooterCopies, {TRUE})

NextCombat ==
    \/ Shooter.state = "none" /\ OpenLevel
    \/ ShooterBeginPlay(TRUE)
    \/ \E bSpawned \in BOOLEAN :
          Len(Enemies) < MaxSpawns /\ CallSpawnEnemy("timer", bSpawned)
    \/ \E Owner \in Shooters, bSpawned \in BOOLEAN : CallFire(Owner, bSpawned)
    \/ \E p \in 1..Len(Projectiles), bShouldTakeDamage \in BOOLEAN :
          \E OtherActor \in Obstacles(p) : ProjectileHit(p, OtherActor, bShouldTakeDamage)

SpecCombat == InitCombat /\ [][NextCombat]_vars

(***************************************************************************)
(* Properties                                                              *)
(***************************************************************************)
Completed(i) == Requests[i].state = "completed"

\* the exchange succeeded: connected, a response, status 200, a JSON object
ExchangeOk(Http) ==
    /\ Http.bConnectedSuccessfully
    /\ Http.valid
    /\ Http.code = 200
    /\ ParseText(Http.content).ok
    /\ ParseText(Http.content).value.t = "object"

\* the parsed body has a string field `status` equal to "running"
StatusRunning(Http) ==
    \E k \in 1..Len(ParseText(Http.content).value.o) :
        /\ ParseText(Http.content).value.o[k].k = "status"
        /\ ParseText(Http.content).value.o[k].v.t = "string"
        /\ ParseText(Http.content).value.o[k].v.s = <<"running">>

\* C1: for every operation and every outcome of the HTTP exchange the caller's
\* continuation has been invoked exactly once when the request has completed
\* (one completion per request), and not at all before.
C1_ContinuationExactlyOnce ==
    \A i \in 1..Len(Requests) :
        /\ Completed(i) => Len(Requests[i].delivered) = 1
        /\ ~Completed(i) => Len(Requests[i].delivered) = 0

\* C1 witness: an import through the manager that ended in a refused connection
\* and a status probe answered by a body that is no JSON, both delivered.
C1_Witness ==
    \E i, j \in 1..Len(Requests) :
        /\ Completed(i) /\ Requests[i].op = "ImportBlenderModel"
        /\ ~Requests[i].http.bConnectedSuccessfully
        /\ Len(Requests[i].delivered) = 1
        /\ Completed(j) /\ Requests[j].op = "CheckConnection"
        /\ Requests[j].http = OkResponse(TextNotJson)
        /\ Len(Requests[j].delivered) = 1

\* C2: the transport lambdas of GET and POST call their continuation with
\* success = true exactly when the connection was established, a valid response
\* exists, its status is 200 and its body is a JSON object, and then with that
\* object; in every other case with success = false and a null object.
C2_TransportSuccessIff ==
    \A i \in 1..Len(Requests) :
        Completed(i) =>
            /\ Len(Requests[i].transport) = 1
            /\ Requests[i].transport[1].bSuccess <=> ExchangeOk(Requests[i].http)
            /\ Requests[i].transport[1].bSuccess =>
                   Requests[i].transport[1].Response = ParseText(Requests[i].http.content).value
            /\ ~Requests[i].transport[1].bSuccess =>
                   Requests[i].transport[1].Response = NullJson

\* C2 witness: a GET that succeeded and a POST that was answered with status 500
\* and a body that parses.
C2_Witness ==
    \E i, j \in 1..Len(Requests) :
        /\ Completed(i) /\ Requests[i].verb = "GET"
        /\ Requests[i].transport[1].bSuccess
        /\ Completed(j) /\ Requests[j].verb = "POST"
        /\ Requests[j].http.code = 500 /\ ParseText(Requests[j].http.content).ok
        /\ ~Requests[j].transport[1].bSuccess

\* C8: CheckConnection delivers (true, non-empty message) exactly when the
\* exchange succeeded and `status` is "running"; a parsed 200 answer with another
\* or no status delivers false with the message about the abnormal status; a
\* failed exchange delivers false with a non-empty message.
C8_CheckConnectionResult ==
    \A i \in 1..Len(Requests) :
        Completed(i) /\ Requests[i].op \in {"CheckConnection", "CheckServerConnection"} =>
            LET d == Requests[i].delivered[1]
                Http == Requests[i].http
            IN  /\ d.bSuccess <=> (ExchangeOk(Http) /\ StatusRunning(Http))
                /\ ~IsEmpty(d.Message)
                /\ ExchangeOk(Http) /\ ~StatusRunning(Http) =>
                       SubSeq(d.Message, 1, Len(MsgAbnormal)) = MsgAbnormal
                /\ ~ExchangeOk(Http) => d.Message = MsgNoConnection

\* C8 witness: one probe answered "running" and delivered true, one answered
\* "degraded" and delivered false.
C8_Witness ==
    \E i, j \in 1..Len(Requests) :
        /\ Completed(i) /\ Requests[i].op = "CheckServerConnection"
        /\ Requests[i].http = OkResponse(TextRunning)
        /\ Requests[i].delivered[1].bSuccess
        /\ Completed(j) /\ Requests[j].op = "CheckConnection"
        /\ Requests[j].http = OkResponse(TextDegraded)
        /\ ~Requests[j].delivered[1].bSuccess

\* destination and name joined by one separator, unless the destination is
\* empty or ends in a separator already, or the name begins with one
JoinedPath(DestinationPath, AssetName) ==
    IF /\ DestinationPath # <<>>
       /\ DestinationPath[Len(DestinationPath)] # "/"
       /\ DestinationPath[Len(DestinationPath)] # "\\"
       /\ (AssetName = <<>> \/ AssetName[1] # "/")
    THEN DestinationPath \o <<"/">> \o AssetName
    ELSE DestinationPath \o AssetName

\* C9 as claimed: a successful import exchange naming the asset PlayerShip makes
\* ImportBlenderModel deliver success, that name, an empty error message and
\* assetPath = dest + "/" + name, whatever the asset registry answered.
C9_AssetPathIsDestSlashName ==
    \A i \in 1..Len(Requests) :
        /\ Completed(i)
        /\ Requests[i].op = "ImportBlenderModel"
        /\ Requests[i].http = OkResponse(TextImported)
        => Requests[i].delivered[1] =
               [bSuccess |-> TRUE,
                AssetName |-> <<"PlayerShip">>,
                AssetPath |-> Requests[i].capture.DestinationPath \o <<"/">> \o <<"PlayerShip">>,
                ErrorMessage |-> EmptyString]

\* C9 amended: a successful import exchange makes ImportBlenderModel deliver
\* success, the name the answer carries (PlayerShip where it names it), an empty
\* error message and assetPath = dest joined with the name: dest + "/" + name
\* when dest is non-empty, does not end in a separator and the name does not
\* begin with one, dest + name otherwise; whatever the asset registry answered.
C9_AssetPathIsJoined ==
    \A i \in 1..Len(Requests) :
        /\ Completed(i)
        /\ Requests[i].op = "ImportBlenderModel"
        /\ ExchangeOk(Requests[i].http)
        => LET d == Requests[i].delivered[1]
           IN  /\ d.bSuccess
               /\ Requests[i].http = OkResponse(TextImported) => d.AssetName = <<"PlayerShip">>
               /\ d.AssetPath = JoinedPath(Requests[i].capture.DestinationPath, d.AssetName)
               /\ d.ErrorMessage = EmptyString

\* C9 witness: an import into "/Game/BlenderAssets/" whose registry lookup found
\* nothing, delivered as /Game/BlenderAssets/PlayerShip, and one into
\* "/Game/BlenderAssets" whose lookup found the asset.
C9_Witness ==
    \E i, j \in 1..Len(Requests) :
        /\ Completed(i) /\ Requests[i].op = "ImportBlenderModel"
        /\ Requests[i].http = OkResponse(TextImported)
        /\ Requests[i].capture.DestinationPath = GameContent \o <<"/">>
        /\ Requests[i].registry = [asked |-> TRUE, AssetData |-> <<>>]
        /\ Requests[i].delivered[1].AssetPath = GameContent \o <<"/", "PlayerShip">>
        /\ Completed(j) /\ Requests[j].op = "ImportBlenderModel"
        /\ Requests[j].http = OkResponse(TextImported)
        /\ Requests[j].capture.DestinationPath = GameContent
        /\ Requests[j].registry = [asked |-> TRUE, AssetData |-> <<"PlayerShip">>]
        /\ Requests[j].delivered[1].AssetPath = GameContent \o <<"/", "PlayerShip">>

\* C10: an import exchange that fails (no connection, no response, a status
\* other than 200, a body that is no JSON object) makes ImportBlenderModel
\* deliver success = false, a non-empty errorMessage and empty assetPath and
\* assetName, and makes ImportAsset deliver (false, "").
C10_ImportTransportFailure ==
    \A i \in 1..Len(Requests) :
        Completed(i) /\ ~ExchangeOk(Requests[i].http) =>
            /\ Requests[i].op = "ImportBlenderModel" =>
                   /\ ~Requests[i].delivered[1].bSuccess
                   /\ ~IsEmpty(Requests[i].delivered[1].ErrorMessage)
                   /\ IsEmpty(Requests[i].delivered[1].AssetPath)
                   /\ IsEmpty(Requests[i].delivered[1].AssetName)
            /\ Requests[i].op = "ImportAsset" =>
                   Requests[i].delivered[1] = [bSuccess |-> FALSE, AssetName |-> EmptyString]

\* C10 witness: an ImportBlenderModel whose connection was refused and an
\* ImportAsset answered with status 500, both delivered as failures.
C10_Witness ==
    \E i, j \in 1..Len(Requests) :
        /\ Completed(i) /\ Requests[i].op = "ImportBlenderModel"
        /\ ~Requests[i].http.bConnectedSuccessfully /\ ~Requests[i].http.valid
        /\ ~Requests[i].delivered[1].bSuccess
        /\ Completed(j) /\ Requests[j].op = "ImportAsset"
        /\ Requests[j].http.code = 500
        /\ ~Requests[j].delivered[1].bSuccess

\* C3: at most one asset manager is ever constructed, none before the first
\* Get(); Get() constructs one only when there is none, every Get() returns the
\* instance, and once set the instance is neither dropped nor replaced.
C3_SingleInstance ==
    /\ [](/\ Len(Objects) <= 1
          /\ Instance \in {0, 1}
          /\ Instance = 0 <=> Objects = <<>>)
    /\ [][/\ Instance # 0 => Instance' = Instance /\ Len(Objects') = Len(Objects)
          /\ Len(Objects') # Len(Objects) =>
                 Instance = 0 /\ Returned'.op = "Get" /\ Returned'.constructed
          /\ Returned'.op = "Get" => Returned'.pointer = Instance' /\ Instance' # 0]_vars

\* C3 witness: a Get() that found the instance there and returned it.
C3_Witness ==
    /\ Returned.op = "Get"
    /\ ~Returned.constructed
    /\ Returned.pointer = 1
    /\ Instance = 1
    /\ Len(Objects) = 1

\* C4: a call of Initialize() on the initialized manager returns true, looks at
\* no config file and leaves the client's server URL as it was, also when the
\* config file has changed since.
C4_InitializeIdempotent ==
    [][(Instance # 0 /\ Objects[Instance].bInitialized /\ Returned'.op = "Initialize") =>
           /\ Returned'.value = TRUE
           /\ ConfigReads' = ConfigReads
           /\ Objects'[Instance].MCPClient.ServerURL = Objects[Instance].MCPClient.ServerURL]_vars

\* C4 witness: Initialize() was called again while the file held a valid server
\* entry that the first call had not seen; one read, the URL still the default.
C4_Witness ==
    /\ Returned.op = "Initialize"
    /\ Returned.value
    /\ Returned.config = File(TextConfig)
    /\ ConfigReads = <<NoFile>>
    /\ Objects[Instance].MCPClient.ServerURL = <<"http://", "127.0.0.1", ":", "8080">>

\* the field `Key` of a parsed object, with a value of the type
HasTyped(Value, Key, Type) ==
    \E k \in 1..Len(Value.o) : Value.o[k].k = Key /\ Value.o[k].v.t = Type

\* the config file is missing, unreadable, no JSON object, without a `server`
\* object, or its `server` lacks a string `host` or a number `port`
Malformed(ConfigDoc) ==
    \/ ~ConfigDoc.exists
    \/ ~ConfigDoc.loads
    \/ ~ParseText(ConfigDoc.content).ok
    \/ ParseText(ConfigDoc.content).value.t # "object"
    \/ ~HasTyped(ParseText(ConfigDoc.content).value, "server", "object")
    \/ \E k \in 1..Len(ParseText(ConfigDoc.content).value.o) :
          /\ ParseText(ConfigDoc.content).value.o[k].k = "server"
          /\ \/ ~HasTyped(ParseText(ConfigDoc.content).value.o[k].v, "host", "string")
             \/ ~HasTyped(ParseText(ConfigDoc.content).value.o[k].v, "port", "number")

\* C5 as claimed: a manager initialized from a missing or malformed config file
\* is initialized and its client's server URL is the default http://127.0.0.1:8080.
C5_MalformedConfigKeepsDefault ==
    \A k \in 1..Len(Objects) :
        (k <= Len(ConfigReads) /\ Malformed(ConfigReads[k])) =>
            /\ Objects[k].bInitialized
            /\ Objects[k].MCPClient.ServerURL = <<"http://", "127.0.0.1", ":", "8080">>

\* the config files that hold a string host and an integer port
WellFormedConfigs == {File(TextConfig), File(TextConfigLocal)}

\* http://h:p for the host h and the port p such a file holds
OriginOf(ConfigDoc) ==
    IF ConfigDoc = File(TextConfig)
    THEN <<"http://", "example.net", ":", "1234">>
    ELSE <<"http://", "localhost", ":", "9000">>

\* C6: when the config file read at the first Get() holds server.host = h and
\* server.port = p, every request made through the manager goes to http://h:p:
\* the probe is a GET of http://h:p/status, the import a POST to
\* http://h:p/api/unreal/command.
C6_ConfiguredOrigin ==
    \A i \in 1..Len(Requests) :
        (ConfigReads # <<>> /\ ConfigReads[1] \in WellFormedConfigs) =>
            /\ Requests[i].op = "CheckServerConnection" =>
                   /\ Requests[i].verb = "GET"
                   /\ Requests[i].url = OriginOf(ConfigReads[1]) \o <<"/", "status">>
            /\ Requests[i].op = "ImportBlenderModel" =>
                   Requests[i].url = OriginOf(ConfigReads[1])
                                         \o <<"/", "api", "/", "unreal", "/", "command">>

\* C6 witness: the first request of a manager configured that way is the probe,
\* and it went to http://example.net:1234/status.
C6_Witness ==
    /\ ConfigReads = <<File(TextConfig)>>
    /\ Len(Requests) >= 1
    /\ Requests[1].op = "CheckServerConnection"
    /\ Requests[1].url = <<"http://", "example.net", ":", "1234", "/", "status">>

\* the path each client operation asks for
PathOfOp(op) ==
    CASE op = "CheckConnection" -> <<"/", "status">>
      [] op = "ExecuteBlenderCommand" -> <<"/", "api", "/", "blender", "/", "command">>
      [] OTHER -> <<"/", "api", "/", "unreal", "/", "command">>

\* C7: a request goes to the URL given by the latest SetServerURL before its
\* dispatch (the default when there was none), and no later step, SetServerURL
\* included, changes the URL of a request already dispatched.
C7_RequestsTargetLatestURL ==
    [][/\ \A i \in 1..Len(Requests) : Requests'[i].url = Requests[i].url
       /\ Len(Requests') > Len(Requests) =>
              Requests'[Len(Requests')].url =
                  LastSetURL \o PathOfOp(Requests'[Len(Requests')].op)]_vars

\* C7 witness: a probe sent to example.net, then an import sent to localhost,
\* then the URL set back to example.net; both requests kept their targets.
C7_Witness ==
    /\ Len(Requests) = 2
    /\ Requests[1].url = <<"http://", "example.net", ":", "1234", "/", "status">>
    /\ Requests[2].url = <<"http://", "localhost", ":", "9000",
                           "/", "api", "/", "unreal", "/", "command">>
    /\ Client.ServerURL = <<"http://", "example.net", ":", "1234">>

\* the parsed body holds result.asset_info.name
NamesAsset(Value) ==
    \E a \in 1..Len(Value.o) :
        /\ Value.o[a].k = "result"
        /\ Value.o[a].v.t = "object"
        /\ \E b \in 1..Len(Value.o[a].v.o) :
              /\ Value.o[a].v.o[b].k = "asset_info"
              /\ Value.o[a].v.o[b].v.t = "object"
              /\ \E c \in 1..Len(Value.o[a].v.o[b].v.o) :
                    Value.o[a].v.o[b].v.o[c].k = "name"

\* C11: a 200 answer to import_asset that is a JSON object without `result`,
\* without `result.asset_info` or without the name is reported as a success:
\* ImportAsset delivers (true, "") and ImportBlenderModel delivers success = true
\* with an empty assetName.
C11_MissingNameIsSuccess ==
    \A i \in 1..Len(Requests) :
        /\ Completed(i)
        /\ ExchangeOk(Requests[i].http)
        /\ ~NamesAsset(ParseText(Requests[i].http.content).value)
        => /\ Requests[i].op = "ImportAsset" =>
                  Requests[i].delivered = <<[bSuccess |-> TRUE, AssetName |-> EmptyString]>>
           /\ Requests[i].op = "ImportBlenderModel" =>
                  /\ Len(Requests[i].delivered) = 1
                  /\ Requests[i].delivered[1].bSuccess
                  /\ Requests[i].delivered[1].AssetName = EmptyString

\* C11 witness: an ImportAsset answered {"result":{}} and an ImportBlenderModel
\* answered {}, both delivered as successes without a name.
C11_Witness ==
    \E i, j \in 1..Len(Requests) :
        /\ Completed(i) /\ Requests[i].op = "ImportAsset"
        /\ Requests[i].http = OkResponse(TextNoAssetInfo)
        /\ Requests[i].delivered[1].bSuccess
        /\ Requests[i].delivered[1].AssetName = EmptyString
        /\ Completed(j) /\ Requests[j].op = "ImportBlenderModel"
        /\ Requests[j].http = OkResponse(TextEmptyObject)
        /\ Requests[j].delivered[1].bSuccess
        /\ Requests[j].delivered[1].AssetName = EmptyString

\* a 200 answer that cannot be decoded for the operation: the body is no JSON
\* object, or it lacks `status` (the probe) or result.asset_info.name (import)
DecodeFailure(op, Http) ==
    /\ Http.bConnectedSuccessfully
    /\ Http.valid
    /\ Http.code = 200
    /\ \/ ~ParseText(Http.content).ok
       \/ ParseText(Http.content).value.t # "object"
       \/ /\ op \in {"CheckConnection", "CheckServerConnection"}
          /\ ~HasTyped(ParseText(Http.content).value, "status", "string")
       \/ /\ op \in {"ImportAsset", "ImportBlenderModel"}
          /\ ~NamesAsset(ParseText(Http.content).value)

\* C12 as claimed: for every operation a 200 answer whose body is not JSON or
\* lacks the fields the operation expects is delivered with ok = false.
C12_DecodeFailureIsFailure ==
    \A i \in 1..Len(Requests) :
        Completed(i) /\ DecodeFailure(Requests[i].op, Requests[i].http) =>
            /\ Len(Requests[i].delivered) = 1
            /\ ~Requests[i].delivered[1].bSuccess

StringMember(Key, Value) == <<"\"", Key, "\"", ":", "\"">> \o Value \o <<"\"">>

\* the text of {"command":"<Command>","params":<ParamsText>}
Envelope(Command, ParamsText) ==
    <<"{">> \o StringMember("command", Command) \o <<",", "\"", "params", "\"", ":">>
        \o ParamsText \o <<"}">>

\* the server URL of the client a request was made through
ServerUrlOf(request) ==
    IF request.op \in {"CheckServerConnection", "ImportBlenderModel"}
    THEN Objects[Instance].MCPClient.ServerURL
    ELSE Client.ServerURL

UnrealCommandPath == <<"/", "api", "/", "unreal", "/", "command">>
BlenderCommandPath == <<"/", "api", "/", "blender", "/", "command">>

\* C14: every POST to <serverUrl>/api/unreal/command carries
\* {"command":c,"params":p} with c = import_asset and p = {path, destination},
\* c = set_game_mode and p = {game_mode}, or c = save_level and p = {}; the
\* status probe is the only GET, goes to <serverUrl>/status and has no body;
\* ExecuteBlenderCommand alone posts to <serverUrl>/api/blender/command, with
\* the command and the params it was called with.
C14_RequestShapes ==
    \A i \in 1..Len(Requests) :
        LET r == Requests[i]
            base == ServerUrlOf(r)
        IN  /\ r.verb \in {"GET", "POST"}
            /\ r.verb = "GET" <=> r.op \in {"CheckConnection", "CheckServerConnection"}
            /\ r.verb = "GET" =>
                   /\ r.url = base \o <<"/", "status">>
                   /\ r.content = <<>>
            /\ r.url = base \o BlenderCommandPath <=> r.op = "ExecuteBlenderCommand"
            /\ r.op = "ExecuteBlenderCommand" =>
                   /\ r.verb = "POST"
                   /\ r.content = Envelope(<<"create_model">>,
                          <<"{">> \o StringMember("model_type", <<"ship">>) \o <<"}">>)
            /\ r.verb = "POST" /\ r.op # "ExecuteBlenderCommand" =>
                   r.url = base \o UnrealCommandPath
            /\ r.url = base \o UnrealCommandPath =>
                   \/ /\ r.op \in {"ImportAsset", "ImportBlenderModel"}
                      /\ r.content = Envelope(<<"import_asset">>,
                             <<"{">> \o StringMember("path", <<"exports", "/", "PlayerShip.fbx">>)
                                 \o <<",">>
                                 \o StringMember("destination", <<"/", "Game", "/", "BlenderAssets">>)
                                 \o <<"}">>)
                   \/ /\ r.op = "SetGameMode"
                      /\ r.content = Envelope(<<"set_game_mode">>,
                             <<"{">> \o StringMember("game_mode", <<"/", "Game", "/", "GM.GM_C">>)
                                 \o <<"}">>)
                   \/ /\ r.op = "SaveLevel"
                      /\ r.content = Envelope(<<"save_level">>, <<"{", "}">>)

\* C14 witness: a save_level POST with its empty params and a status probe are
\* both with the HTTP stack.
C14_Witness ==
    \E i, j \in 1..Len(Requests) :
        /\ Requests[i].op = "SaveLevel" /\ Requests[i].verb = "POST"
        /\ Requests[i].content =
               <<"{", "\"", "command", "\"", ":", "\"", "save_level", "\"", ",",
                 "\"", "params", "\"", ":", "{", "}", "}">>
        /\ Requests[j].op = "CheckConnection" /\ Requests[j].verb = "GET"
        /\ Requests[j].content = <<>>

\* invocation k was made by a caller on a thread other than the game thread
OffThreadCall(k) ==
    /\ k <= Len(Placements)
    /\ Placements[k].from = "caller"
    /\ Placements[k].thread # "GameThread"

\* C15: a PlaceAssetInLevel called off the main thread returns true, loads and
\* spawns nothing on the calling thread and posts exactly one task, which holds
\* the arguments of the call; what the re-invocation returns later does not
\* reach the caller: the record of the call, its value included, never changes.
C15_OffThreadCallIsReposted ==
    /\ [](\A k \in 1..Len(Placements) :
              OffThreadCall(k) =>
                  /\ Placements[k].value = TRUE
                  /\ Placements[k].loaded = <<>>
                  /\ Placements[k].spawned = 0
                  /\ Placements[k].posted = 1)
    /\ [][/\ \A k \in 1..Len(Placements) : Placements'[k] = Placements[k]
          /\ (Len(Placements') = Len(Placements) + 1
              /\ Placements'[Len(Placements')].from = "caller"
              /\ Placements'[Len(Placements')].thread # "GameThread") =>
                 /\ World' = World
                 /\ GameThreadTasks' =
                        Append(GameThreadTasks,
                               [task |-> Placements'[Len(Placements')].args,
                                origin |-> Len(Placements')])]_vars

\* C15 witness: a call from a worker thread for an asset that does not exist
\* got true; the task it posted has run on the game thread and got false.
C15_Witness ==
    /\ Len(Placements) = 2
    /\ OffThreadCall(1)
    /\ Placements[1].value = TRUE
    /\ Placements[1].args.AssetPath = <<"/", "Game", "/", "X">>
    /\ Placements[2].from = "task" /\ Placements[2].origin = 1
    /\ Placements[2].thread = "GameThread"
    /\ Placements[2].args = Placements[1].args
    /\ Placements[2].value = FALSE
    /\ GameThreadTasks = <<>>

\* the task posted by invocation k has run on the game thread and has gone on
\* to load the asset
AttemptedOnGameThread(k) ==
    \E j \in 1..Len(Placements) :
        /\ Placements[j].from = "task"
        /\ Placements[j].origin = k
        /\ Placements[j].thread = "GameThread"
        /\ Placements[j].args = Placements[k].args
        /\ Placements[j].loaded = <<Placements[k].args.AssetPath>>

\* C16: with the game thread running its queued tasks, every PlaceAssetInLevel
\* called off the main thread is eventually followed by the attempt on the main
\* thread; the re-invocation posts no task, so each call is re-posted at most
\* once.
C16_RepostedCallIsAttempted ==
    /\ \A k \in 1..(2 * MaxPlacements) : [](OffThreadCall(k) => <>AttemptedOnGameThread(k))
    /\ [](\A j \in 1..Len(Placements) :
              /\ Placements[j].from = "task" => Placements[j].posted = 0
              /\ Cardinality({i \in 1..Len(Placements) :
                                 Placements[i].origin = Placements[j].origin
                                 /\ Placements[i].from = "task"}) <= 1)

\* C16 witness: two calls from worker threads, both re-invoked on the game
\* thread, the queue empty again.
C16_Witness ==
    /\ Len(Placements) = 4
    /\ OffThreadCall(1) /\ OffThreadCall(2)
    /\ AttemptedOnGameThread(1) /\ AttemptedOnGameThread(2)
    /\ GameThreadTasks = <<>>

\* C17: every actor in the world was spawned, scaled and (if at all) labelled
\* on the game thread, and only invocations on the game thread load or spawn,
\* whatever the threads of the callers and the order of calls and tasks.
C17_WorldMutatedOnGameThread ==
    /\ \A a \in 1..Len(World) :
           /\ World[a].spawnedOn = "GameThread"
           /\ World[a].scaledOn = "GameThread"
           /\ World[a].labelledOn \in {"GameThread", "none"}
    /\ \A k \in 1..Len(Placements) :
           (Placements[k].spawned > 0 \/ Placements[k].loaded # <<>>) =>
               Placements[k].thread = "GameThread"

\* C17 witness: a labelled mesh actor placed by a call from a worker thread and
\* a blueprint actor placed by a call on the game thread are both in the world.
C17_Witness ==
    \E k, j \in 1..Len(Placements) : \E a, b \in 1..Len(World) :
        /\ OffThreadCall(k)
        /\ Placements[j].from = "task" /\ Placements[j].origin = k
        /\ Placements[j].spawned = 1
        /\ World[a].class = "AStaticMeshActor" /\ World[a].label = <<"Ship">>
        /\ World[a].spawnedOn = "GameThread"
        /\ World[b].class = "BP_Enemy_C"

\* the asset under the path is a static mesh, or a blueprint with a generated class
Placeable(AssetPath) ==
    \/ AssetPath = <<"/", "Game", "/", "BlenderAssets", "/", "PlayerShip">>
    \/ AssetPath = <<"/", "Game", "/", "Blueprints", "/", "BP_Enemy">>

\* C18: on the main thread PlaceAssetInLevel returns true exactly when it
\* spawned an actor, which is exactly when the asset is a static mesh or a
\* blueprint with a generated class, the editor world was there and SpawnActor
\* gave an actor; in every other case it returns false and adds no actor, so
\* the world holds one actor for each invocation that returned true there.
C18_TrueIffSpawned ==
    /\ \A k \in 1..Len(Placements) :
           Placements[k].thread = "GameThread" =>
               /\ Placements[k].value <=> Placements[k].spawned = 1
               /\ Placements[k].value <=>
                      /\ Placeable(Placements[k].args.AssetPath)
                      /\ Placements[k].world = "found"
                      /\ Placements[k].spawn = "spawned"
               /\ ~Placements[k].value => Placements[k].spawned = 0
    /\ Len(World) = Cardinality({k \in 1..Len(Placements) :
                         Placements[k].thread = "GameThread" /\ Placements[k].value})

\* C18 witness: on the game thread a blueprint without a generated class was
\* refused, and a mesh whose spawn succeeded was placed: one actor in the world.
C18_Witness ==
    /\ Len(Placements) = 2
    /\ Placements[1].thread = "GameThread" /\ Placements[1].from = "caller"
    /\ Placements[1].args.AssetPath = <<"/", "Game", "/", "Blueprints", "/", "BP_Draft">>
    /\ Placements[1].value = FALSE
    /\ Placements[2].thread = "GameThread" /\ Placements[2].from = "caller"
    /\ Placements[2].args.AssetPath = <<"/", "Game", "/", "BlenderAssets", "/", "PlayerShip">>
    /\ Placements[2].value = TRUE
    /\ Len(World) = 1

\* the step is a call of the manager's SetGameMode: it leaves the call in
\* Returned and either changes Returned or starts the manager's request
IsSetGameModeCall ==
    /\ Returned'.op = "SetGameMode"
    /\ \/ Returned' # Returned
       \/ /\ Len(Requests') = Len(Requests) + 1
          /\ Requests'[Len(Requests')].op = "ManagerSetGameMode"

\* C19: the manager's SetGameMode returns true exactly when the class is valid;
\* with no class it starts no request; with a class it starts one POST to
\* <serverUrl>/api/unreal/command with the body
\* {"command":"set_game_mode","params":{"game_mode":<path of the class>}};
\* the value it returned stands whatever the server answers afterwards.
C19_SetGameModeReturnsValidity ==
    /\ [](Returned.op = "SetGameMode" => (Returned.value <=> Returned.GameModeClass.valid))
    /\ [][/\ IsSetGameModeCall /\ ~Returned'.GameModeClass.valid =>
                 /\ Returned'.value = FALSE
                 /\ Requests' = Requests
          /\ IsSetGameModeCall /\ Returned'.GameModeClass.valid =>
                 /\ Returned'.value = TRUE
                 /\ Len(Requests') = Len(Requests) + 1
                 /\ SubSeq(Requests', 1, Len(Requests)) = Requests
                 /\ Requests'[Len(Requests')].verb = "POST"
                 /\ Requests'[Len(Requests')].state = "processing"
                 /\ Requests'[Len(Requests')].url =
                        Objects[Instance].MCPClient.ServerURL \o UnrealCommandPath
                 /\ Requests'[Len(Requests')].content =
                        Envelope(<<"set_game_mode">>,
                            <<"{">> \o StringMember("game_mode", Returned'.GameModeClass.path)
                                \o <<"}">>)
          /\ (\E i \in 1..Len(Requests) :
                  Requests[i].state = "processing" /\ Requests'[i].state = "completed")
                 => Returned' = Returned]_vars

\* C19 witness: SetGameMode was called with /Game/GM.GM_C and returned true; its
\* request has since failed (connection refused), and the last call, with no
\* class, returned false; there is still that one request.
C19_Witness ==
    /\ Returned.op = "SetGameMode"
    /\ ~Returned.GameModeClass.valid
    /\ Returned.value = FALSE
    /\ Len(Requests) = 1
    /\ Requests[1].op = "ManagerSetGameMode"
    /\ Requests[1].content =
           <<"{", "\"", "command", "\"", ":", "\"", "set_game_mode", "\"", ",",
             "\"", "params", "\"", ":",
             "{", "\"", "game_mode", "\"", ":", "\"", "/", "Game", "/", "GM.GM_C", "\"", "}",
             "}">>
    /\ Completed(1)
    /\ ~Requests[1].http.bConnectedSuccessfully
    /\ Requests[1].delivered = <<[bSuccess |-> FALSE]>>

\* the latest request the manager's SetGameMode started
LastSetGameModeRequest ==
    Requests[CHOOSE i \in 1..Len(Requests) :
                 /\ Requests[i].op = "ManagerSetGameMode"
                 /\ \A j \in (i + 1)..Len(Requests) : Requests[j].op # "ManagerSetGameMode"]

\* C20: a SetGameMode that follows a SetGameMode with the same class sends a
\* body identical to the one sent before, whatever was requested and answered
\* in between; and two ImportBlenderModel calls with the same source and
\* destination that got the same answer and succeeded deliver the same
\* assetPath, whatever the asset registry held at each completion.
C20_NoHiddenState ==
    /\ [](\A i, j \in 1..Len(Requests) :
              (/\ Requests[i].op = "ImportBlenderModel" /\ Requests[j].op = "ImportBlenderModel"
               /\ Completed(i) /\ Completed(j)
               /\ Requests[i].capture = Requests[j].capture
               /\ Requests[i].http = Requests[j].http
               /\ Requests[i].delivered[1].bSuccess /\ Requests[j].delivered[1].bSuccess)
              => Requests[i].delivered[1].AssetPath = Requests[j].delivered[1].AssetPath)
    /\ [][(/\ Returned.op = "SetGameMode"
           /\ Returned.GameModeClass.valid
           /\ Returned'.op = "SetGameMode"
           /\ Returned'.GameModeClass = Returned.GameModeClass
           /\ Len(Requests') = Len(Requests) + 1
           /\ Requests'[Len(Requests')].op = "ManagerSetGameMode")
          => Requests'[Len(Requests')].content = LastSetGameModeRequest.content]_vars

\* C20 witness: after two SetGameMode calls with /Game/GM.GM_C the two requests
\* carry the same body although the first has been answered in between.
C20_Witness ==
    /\ Len(Requests) = 2
    /\ Requests[1].op = "ManagerSetGameMode" /\ Requests[2].op = "ManagerSetGameMode"
    /\ Completed(1) /\ ~Completed(2)
    /\ Returned.op = "SetGameMode"
    /\ Returned.GameModeClass.path = <<"/", "Game", "/", "GM.GM_C">>
    /\ Requests[1].content = Requests[2].content
    /\ Requests[1].content # <<>>

\* the asset name an import answer carries: PlayerShip in the answer that names
\* it, none in a failed exchange or in an answer without the name
AnsweredName(Http) ==
    IF ExchangeOk(Http) /\ Http.content = TextImported THEN <<"PlayerShip">> ELSE EmptyString

\* C21: each asynchronous call is an exchange of its own.  Whatever the order
\* of the completions, the continuation of an import is invoked with the
\* outcome of its own request: success exactly when its own exchange
\* succeeded, the name its own answer carries, the path joined from its own
\* destination, the error message naming its own model; and the completion of
\* one request leaves every other request as it was.
C21_IndependentExchanges ==
    /\ [](\A i \in 1..Len(Requests) :
            Completed(i) =>
                /\ Len(Requests[i].delivered) = 1
                /\ Requests[i].delivered[1].bSuccess = ExchangeOk(Requests[i].http)
                /\ Requests[i].delivered[1].AssetName = AnsweredName(Requests[i].http)
                /\ Requests[i].op = "ImportAsset" =>
                       DOMAIN Requests[i].delivered[1] = {"bSuccess", "AssetName"}
                /\ Requests[i].op = "ImportBlenderModel" =>
                       /\ DOMAIN Requests[i].delivered[1] = DOMAIN DefaultImportResult
                       /\ Requests[i].delivered[1].AssetPath =
                              (IF ExchangeOk(Requests[i].http)
                               THEN JoinedPath(Requests[i].capture.DestinationPath,
                                               AnsweredName(Requests[i].http))
                               ELSE EmptyString)
                       /\ Requests[i].delivered[1].ErrorMessage =
                              (IF ExchangeOk(Requests[i].http)
                               THEN EmptyString
                               ELSE MsgImportFailed \o Requests[i].capture.ModelPath))
    /\ [][\A i \in 1..Len(Requests) :
              Requests'[i] # Requests[i] =>
                  \A j \in 1..Len(Requests) : j # i => Requests'[j] = Requests[j]]_vars

\* C21 witness: two imports in flight, the later one (into /Game/BlenderAssets)
\* answered first and delivered as /Game/BlenderAssets/PlayerShip while the
\* earlier one (into the empty destination) is still with the HTTP stack.
C21_Witness ==
    /\ Len(Requests) = 2
    /\ Requests[1].op = "ImportBlenderModel" /\ Requests[1].state = "processing"
    /\ Requests[1].capture.DestinationPath = EmptyString
    /\ Completed(2) /\ Requests[2].op = "ImportBlenderModel"
    /\ Requests[2].capture.DestinationPath = GameContent
    /\ Requests[2].http = OkResponse(TextImported)
    /\ Requests[2].delivered[1].AssetPath = GameContent \o <<"/", "PlayerShip">>

\* C22: for ExecuteBlenderCommand, SetGameMode and SaveLevel the flag delivered
\* to the continuation is the transport's success flag of that request (true
\* exactly when the exchange succeeded), whatever the parsed answer says, an
\* answer {"status":"error",...} included; ExecuteBlenderCommand also hands on
\* the parsed answer as it is (no object when the exchange failed).
C22_OkIsTransportFlag ==
    \A i \in 1..Len(Requests) :
        Completed(i) /\ Requests[i].op \in {"ExecuteBlenderCommand", "SetGameMode", "SaveLevel"}
        => /\ Len(Requests[i].transport) = 1
           /\ Len(Requests[i].delivered) = 1
           /\ Requests[i].delivered[1].bSuccess = Requests[i].transport[1].bSuccess
           /\ Requests[i].delivered[1].bSuccess = ExchangeOk(Requests[i].http)
           /\ Requests[i].op = "ExecuteBlenderCommand" =>
                  /\ Requests[i].delivered[1].Response = Requests[i].transport[1].Response
                  /\ Requests[i].delivered[1].Response =
                         (IF ExchangeOk(Requests[i].http)
                          THEN ParseText(Requests[i].http.content).value
                          ELSE NullJson)
           /\ Requests[i].op # "ExecuteBlenderCommand" =>
                  DOMAIN Requests[i].delivered[1] = {"bSuccess"}

\* C22 witness: a SetGameMode and an ExecuteBlenderCommand both answered 200
\* with {"status":"error",...}: both delivered with ok = true, the command with
\* the answer's status "error" in the response handed on.
C22_Witness ==
    \E i, j \in 1..Len(Requests) :
        /\ Completed(i) /\ Requests[i].op = "SetGameMode"
        /\ Requests[i].http = OkResponse(TextError)
        /\ Requests[i].delivered = <<[bSuccess |-> TRUE]>>
        /\ Completed(j) /\ Requests[j].op = "ExecuteBlenderCommand"
        /\ Requests[j].http = OkResponse(TextError)
        /\ Requests[j].delivered[1].bSuccess
        /\ GetStringField(Requests[j].delivered[1].Response, "status") = <<"error">>

\* the calls of an operation recorded so far
CallsOf(op) == {k \in 1..Len(Calls) : Calls[k].op = op}

\* C23 as claimed: LoadBlenderAsset invokes a bound delegate exactly once, with
\* true if the object at the path is resident and with false otherwise (an
\* unbound one not at all), and starts no request.
C23_LoadedIffResident ==
    \A k \in CallsOf("LoadBlenderAsset") :
        /\ Calls[k].executed =
               (IF Calls[k].bound THEN <<LoadObject(Calls[k].path).valid>> ELSE <<>>)
        /\ Calls[k].started = 0

\* the asset is of a kind SpawnAssetActor spawns: a static mesh, or a blueprint
\* with a generated class
Spawnable(AssetPath) ==
    /\ LoadObject(AssetPath).valid
    /\ \/ LoadObject(AssetPath).class = "UStaticMesh"
       \/ /\ LoadObject(AssetPath).class = "UBlueprint"
          /\ LoadObject(AssetPath).GeneratedClass # "nullptr"

\* C24: SpawnAssetActor returns an actor only when it spawned that one actor,
\* for a loaded static mesh (a mesh actor bound to the mesh) or a blueprint
\* with a generated class (an actor of that class), in a world that is there;
\* it returns null and spawns nothing when the asset does not load, the world
\* is unavailable, the kind is unsupported or SpawnActor fails; the actors in
\* the world are the ones returned.
C24_SpawnAssetActorResult ==
    /\ \A k \in CallsOf("SpawnAssetActor") :
          /\ Calls[k].value # NullActor =>
                 /\ Calls[k].spawned = 1
                 /\ Spawnable(Calls[k].path) /\ Calls[k].world /\ Calls[k].spawn
                 /\ \E a \in 1..Len(World) : World[a] = Calls[k].value
                 /\ Calls[k].value.class =
                        (IF LoadObject(Calls[k].path).class = "UStaticMesh"
                         THEN "AStaticMeshActor"
                         ELSE LoadObject(Calls[k].path).GeneratedClass)
                 /\ Calls[k].value.mesh =
                        (IF LoadObject(Calls[k].path).class = "UStaticMesh"
                         THEN LoadObject(Calls[k].path).name
                         ELSE "none")
          /\ (~Spawnable(Calls[k].path) \/ ~Calls[k].world \/ ~Calls[k].spawn) =>
                 Calls[k].value = NullActor
          /\ Calls[k].value = NullActor => Calls[k].spawned = 0
          /\ Calls[k].started = 0
    /\ Len(World) = Cardinality({k \in CallsOf("SpawnAssetActor") :
                                     Calls[k].value # NullActor})

\* C24 witness: an initialized component spawned a mesh actor for the mesh
\* PlayerShip, and was refused a blueprint actor because there was no world.
C24_Witness ==
    \E k, l \in CallsOf("SpawnAssetActor") :
        /\ Calls[k].manager # 0 /\ Calls[k].path = MeshPath
        /\ Calls[k].value.class = "AStaticMeshActor"
        /\ Calls[k].value.mesh = "PlayerShip"
        /\ World = <<Calls[k].value>>
        /\ Calls[l].manager # 0 /\ Calls[l].path = BlueprintPath /\ ~Calls[l].world
        /\ Calls[l].value = NullActor

\* C25: SpawnCustomBlenderAsset is a stub.  Whatever it is given, it invokes a
\* bound delegate exactly once with no actor (an unbound one not at all),
\* starts no request and spawns no actor: the only requests of a component
\* are the probes of BeginPlay.
C25_SpawnCustomIsStub ==
    /\ \A k \in CallsOf("SpawnCustomBlenderAsset") :
          /\ Calls[k].executed = (IF Calls[k].bound THEN <<NullActor>> ELSE <<>>)
          /\ Calls[k].started = 0
          /\ Calls[k].spawned = 0
    /\ \A i \in 1..Len(Requests) : Requests[i].op = "CheckServerConnection"

\* C25 witness: a component without its asset manager and, later, the
\* component holding it were each asked for a custom asset with a bound
\* delegate, and each invoked it once with no actor.
C25_Witness ==
    \E k, l \in CallsOf("SpawnCustomBlenderAsset") :
        /\ Calls[k].manager = 0 /\ Calls[k].bound /\ Calls[k].executed = <<NullActor>>
        /\ Calls[l].manager # 0 /\ Calls[l].bound /\ Calls[l].executed = <<NullActor>>

\* C30 as claimed: when the component begins play and when it is asked to load
\* or to spawn an asset, its AssetManager pointer has been set.
C30_AssetManagerSetBeforeUse ==
    /\ Component.bHasBegunPlay => Component.AssetManager # 0
    /\ \A k \in CallsOf("LoadBlenderAsset") \cup CallsOf("SpawnAssetActor") :
          Calls[k].manager # 0

\* request i is a status probe whose continuation was told that the server runs
ProbeSucceeded(i) ==
    /\ Completed(i)
    /\ Requests[i].op = "CheckServerConnection"
    /\ Requests[i].delivered[1].bSuccess

\* the operations of AMCPGameMode that need the server
GuardedOps ==
    {"ImportBlenderAsset", "ImportAllAssetsInDirectory", "CreateCustomLevel",
     "SetupLevelWithBlenderAssets"}

\* C26: AMCPGameMode starts no import before a status probe has succeeded.
\* bConnectedToServer is false at first and turns true only in the step in
\* which a status-probe continuation reports success; every import request
\* has a successful probe before it; and a call made while the flag is false
\* starts no request, gives OnComplete(false) (ImportBlenderAsset,
\* ImportAllAssetsInDirectory), returns false (CreateCustomLevel) or gives
\* OnComplete(false, "") (SetupLevelWithBlenderAssets), a delegate that is not
\* bound being left alone.
C26_NoImportBeforeProbe ==
    /\ [](/\ GameMode.bConnectedToServer => \E i \in 1..Len(Requests) : ProbeSucceeded(i)
          /\ \A i \in 1..Len(Requests) :
                Requests[i].op = "ImportBlenderModel" => \E j \in 1..(i - 1) : ProbeSucceeded(j)
          /\ \A k \in 1..Len(Calls) :
                Calls[k].op \in GuardedOps /\ ~Calls[k].connected =>
                    /\ Calls[k].started = 0
                    /\ Calls[k].op \in {"ImportBlenderAsset", "ImportAllAssetsInDirectory"} =>
                           Calls[k].executed = (IF Calls[k].bound THEN <<FALSE>> ELSE <<>>)
                    /\ Calls[k].op = "CreateCustomLevel" => Calls[k].value = FALSE
                    /\ Calls[k].op = "SetupLevelWithBlenderAssets" =>
                           Calls[k].executed =
                               (IF Calls[k].bound
                                THEN <<[bSuccess |-> FALSE, LevelPath |-> EmptyString]>>
                                ELSE <<>>))
    /\ [][~GameMode.bConnectedToServer /\ GameMode'.bConnectedToServer =>
              \E i \in 1..Len(Requests) :
                  /\ Requests[i].state = "processing"
                  /\ Requests[i].op = "CheckServerConnection"
                  /\ Requests'[i].state = "completed"
                  /\ Requests'[i].delivered[1].bSuccess]_vars

\* C26 witness: an ImportBlenderAsset called before the probe was answered was
\* turned down with OnComplete(false) and no request; after the probe had
\* succeeded the same call started an import.
C26_Witness ==
    /\ Len(Calls) = 2
    /\ Calls[1].op = "ImportBlenderAsset" /\ ~Calls[1].connected /\ Calls[1].bound
    /\ Calls[1].executed = <<FALSE>> /\ Calls[1].started = 0
    /\ Calls[2].op = "ImportBlenderAsset" /\ Calls[2].connected /\ Calls[2].started = 1
    /\ GameMode.bConnectedToServer
    /\ ProbeSucceeded(1)
    /\ Requests[2].op = "ImportBlenderModel"

\* the lambdas call k handed to the asset manager
LambdasOf(k) == {l \in 1..Len(Lambdas) : Lambdas[l].call = k}

\* the invocations of the delegate given to call k so far: those made inside
\* the call, then those its lambdas made
InvocationsOf(k) ==
    Calls[k].executed
        \o Concat([l \in 1..Len(Lambdas) |->
                      IF Lambdas[l].call = k THEN Lambdas[l].executed ELSE <<>>])

\* C27 as claimed: ImportAllAssetsInDirectory given a bound delegate invokes it
\* exactly once: with false and without a request when the directory holds no
\* .fbx file; not before every per-file import has completed, and then with
\* true exactly when every per-file continuation reported success.
C27_CompleteAfterAllImports ==
    \A k \in CallsOf("ImportAllAssetsInDirectory") :
        Calls[k].bound /\ Calls[k].connected /\ Calls[k].manager # 0 =>
            IF Calls[k].args.Files = <<>>
            THEN InvocationsOf(k) = <<FALSE>> /\ Calls[k].started = 0
            ELSE IF \A l \in LambdasOf(k) : Completed(Lambdas[l].request)
                 THEN InvocationsOf(k) =
                          <<\A l \in LambdasOf(k) :
                                Requests[Lambdas[l].request].delivered[1].bSuccess>>
                 ELSE InvocationsOf(k) = <<>>

\* C28 as claimed: a continuation that runs when the game mode that issued its
\* request has ended play, or when the function whose local it captured has
\* returned, reads and writes no field of that game mode and no such local.
C28_NoDanglingAccess ==
    \A l \in 1..Len(Lambdas) : Lambdas[l].ran => Lambdas[l].dangling = <<>>

\* the text of the import_asset request for a model, into /Game/BlenderAssets
ImportAssetText(ModelPath) ==
    Envelope(<<"import_asset">>,
        <<"{">> \o StringMember("path", ModelPath) \o <<",">>
            \o StringMember("destination", <<"/", "Game", "/", "BlenderAssets">>)
            \o <<"}">>)

\* the requests are import_asset requests for the three models of the shooter
ShooterImportRequests(requests) ==
    /\ Len(requests) = 3
    /\ \A n \in 1..3 : requests[n].op = "ImportBlenderModel" /\ requests[n].verb = "POST"
    /\ requests[1].content = ImportAssetText(<<"exports", "/", "PlayerShip.fbx">>)
    /\ requests[2].content = ImportAssetText(<<"exports", "/", "EnemyShip.fbx">>)
    /\ requests[3].content = ImportAssetText(<<"exports", "/", "Projectile.fbx">>)

C31_NoEditorNoPlacement ==
    ~WITH_EDITOR =>
        /\ \A k \in 1..Len(Placements) :
              /\ Placements[k].value = FALSE
              /\ Placements[k].posted = 0
              /\ Placements[k].spawned = 0
              /\ Placements[k].loaded = <<>>
        /\ World = <<>>
        /\ GameThreadTasks = <<>>

\* C31 witness: the build has no editor support and PlaceAssetInLevel was
\* called for a mesh that exists, from a worker thread and on the game thread.
C31_Witness ==
    /\ ~WITH_EDITOR
    /\ Len(Placements) = 2
    /\ Placements[1].thread # "GameThread" /\ Placements[1].args.AssetPath = MeshPath
    /\ Placements[2].thread = "GameThread" /\ Placements[2].args.AssetPath = MeshPath
    /\ Placements[1].value = FALSE /\ Placements[2].value = FALSE


\* the shooter's actors are left as they were
ShooterUntouched ==
    /\ Game' = Game
    /\ Enemies' = Enemies
    /\ Player' = Player
    /\ Projectiles' = Projectiles

\* C32: bGameStarted and bGameOver are never both true; a call of StartGame
\* while the game is started or over changes nothing; a call of GameOver
\* changes nothing unless the game is started and not over.
C32_GameFlags ==
    /\ [](~(Game.bGameStarted /\ Game.bGameOver))
    /\ [][(Did'.op = "StartGame" /\ (Game.bGameStarted \/ Game.bGameOver))
              => ShooterUntouched]_vars
    /\ [][(Did'.op = "GameOver" /\ ~(Game.bGameStarted /\ ~Game.bGameOver))
              => ShooterUntouched]_vars

\* the same for the module copy alone
C32_GameFlagsModule ==
    /\ [](~(Game.bGameStarted /\ Game.bGameOver))
    /\ [][(Game.copy = "module" /\ Did'.op = "StartGame"
               /\ (Game.bGameStarted \/ Game.bGameOver))
              => ShooterUntouched]_vars
    /\ [][(Game.copy = "module" /\ Did'.op = "GameOver"
               /\ ~(Game.bGameStarted /\ ~Game.bGameOver))
              => ShooterUntouched]_vars


\* C33: once the game is over, a tick of the spawn timer, a call of SpawnEnemy
\* and a call of AddScore leave CurrentEnemyCount, the enemies and the score
\* as they were.
C33_NothingAfterGameOver ==
    [][(Game.bGameOver /\ Did'.op \in {"SpawnEnemy", "AddScore"})
          => /\ Game'.CurrentEnemyCount = Game.CurrentEnemyCount
             /\ Enemies' = Enemies
             /\ GetScore(Game') = GetScore(Game)]_vars

\* the same for the module copy alone
C33_NothingAfterGameOverModule ==
    [][(Game.copy = "module" /\ Game.bGameOver /\ Did'.op \in {"SpawnEnemy", "AddScore"})
          => /\ Game'.CurrentEnemyCount = Game.CurrentEnemyCount
             /\ Enemies' = Enemies
             /\ GetScore(Game') = GetScore(Game)]_vars


\* C34: CurrentEnemyCount stays between 0 and MaxEnemyCount; a tick of the
\* spawn timer or a call of SpawnEnemy made while the count is at the cap
\* spawns nothing; OnEnemyDestroyed does not take the count below 0.
C34_EnemyCap ==
    /\ [](0 <= Game.CurrentEnemyCount /\ Game.CurrentEnemyCount <= Game.MaxEnemyCount)
    /\ [][(Did'.op = "SpawnEnemy" /\ Game.CurrentEnemyCount >= Game.MaxEnemyCount)
              => (Enemies' = Enemies /\ Game'.CurrentEnemyCount = Game.CurrentEnemyCount)]_vars

\* twelve enemies were spawned, the first of them flew into the player and
\* was destroyed by both hit handlers, the count is at the cap of 10 again,
\* and the timer has ticked at the cap with an actor to be had
C34_Witness ==
    /\ Game.copy = "module" /\ Game.bGameStarted
    /\ Did.op = "SpawnEnemy" /\ Did.From = "timer" /\ Did.bSpawned
    /\ Did.CurrentEnemyCount = 10
    /\ Game.MaxEnemyCount = 10 /\ Game.CurrentEnemyCount = 10
    /\ Len(Enemies) = 12
    /\ Enemies[1].state = "destroyed" /\ Enemies[1].broadcasts = 2
    /\ \A e \in 2..12 : Enemies[e].state = "living"


\* the game is started and not over
Running == Game.bGameStarted /\ ~Game.bGameOver

\* C35: while the game is running, CurrentEnemyCount is the number of living
\* enemies the game mode has spawned; a step of the running game changes the
\* count by what it changes the number of living enemies: one up for a
\* spawn, one down for an enemy destroyed, by a collision with the player too.
C35_CountIsLivingEnemies ==
    /\ [](Running => Game.CurrentEnemyCount = Cardinality(Living))
    /\ [][(Running /\ Running' /\ Did'.op \in {"SpawnEnemy", "EnemySetHealth", "Collide"})
              => Game'.CurrentEnemyCount - Game.CurrentEnemyCount
                     = Cardinality(Living') - Cardinality(Living)]_vars

\* the same without the collisions in which the enemy is the one that moved
\* (its hit handler and then the player's both call HandleDestruction), for
\* the module copy
C35_CountIsLivingEnemiesOneHandler ==
    [][(/\ Game.copy = "module" /\ Running /\ Running'
        /\ Game.CurrentEnemyCount = Cardinality(Living)
        /\ Did'.op \in {"SpawnEnemy", "EnemySetHealth", "Collide"}
        /\ (Did'.op = "Collide" => Did'.Mover = "player"))
          => Game'.CurrentEnemyCount = Cardinality(Living')]_vars


\* the enemies that the step destroys by HandleDestruction
Destroyed(e) ==
    /\ e \in 1..Len(Enemies) /\ e \in 1..Len(Enemies')
    /\ Enemies[e].state = "living"
    /\ Enemies'[e].broadcasts > 0

\* C36: over its lifetime an enemy is awarded at most once and broadcasts
\* OnEnemyDestroyed at most once; a step of the running game that destroys
\* one enemy, by SetHealth or by a collision with the player, raises the
\* score by exactly the enemy's ScoreValue.
C36_ScoreOncePerEnemy ==
    /\ [](\A e \in 1..Len(Enemies) :
              /\ Enemies[e].broadcasts <= 1
              /\ Enemies[e].awarded \in {0, Enemies[e].ScoreValue})
    /\ [][\A e \in 1..Len(Enemies) :
              (Running /\ Running' /\ Did'.op \in {"EnemySetHealth", "Collide"}
                  /\ Destroyed(e))
                 => GetScore(Game') = GetScore(Game) + Enemies[e].ScoreValue]_vars

\* the same without the collisions in which the enemy is the one that moved
C36_ScoreOncePerEnemyOneHandler ==
    /\ [][\A e \in 1..Len(Enemies) :
              (/\ Did'.op \in {"EnemySetHealth", "Collide"}
               /\ (Did'.op = "Collide" => Did'.Mover = "player")
               /\ Destroyed(e))
                 => /\ Enemies'[e].broadcasts = 1
                    /\ Enemies'[e].awarded \in {0, Enemies[e].ScoreValue}
                    /\ (Running /\ Running')
                           => GetScore(Game') = GetScore(Game) + Enemies[e].ScoreValue]_vars


\* the maximum the constructor configures: MaxEnemyCount(10) in the module
\* copy, MaxEnemies(10) in the root copy
ConfiguredMaximum ==
    IF Game.copy = "module" THEN Game.MaxEnemyCount ELSE Game.MaxEnemies

\* the game is running with an enemy class and a player pawn
CanSpawn == Running /\ Game.EnemyClass # "nullptr" /\ Player.state = "living"

\* C37: while the game is running with an enemy class and a player pawn and
\* fewer living enemies than the configured maximum, a tick of the spawn timer
\* for which SpawnActor gives an actor spawns one enemy; a game that stays
\* running comes to have as many living enemies as the maximum, 10.
C37_SpawnsUpToMaximum ==
    /\ [][(/\ Did'.op = "SpawnEnemy" /\ Did'.From = "timer" /\ Did'.bSpawned
            /\ CanSpawn /\ Cardinality(Living) < ConfiguredMaximum)
              => /\ Len(Enemies') = Len(Enemies) + 1
                 /\ Cardinality(Living') = Cardinality(Living) + 1]_vars
    /\ CanSpawn ~> (~Running \/ (Cardinality(Living) = ConfiguredMaximum
                                    /\ ConfiguredMaximum = 10))

\* the same for the module copy alone
C37_SpawnsUpToMaximumModule ==
    /\ [][(/\ Game.copy = "module"
            /\ Did'.op = "SpawnEnemy" /\ Did'.From = "timer" /\ Did'.bSpawned
            /\ CanSpawn /\ Cardinality(Living) < ConfiguredMaximum)
              => /\ Len(Enemies') = Len(Enemies) + 1
                 /\ Cardinality(Living') = Cardinality(Living) + 1]_vars
    /\ (Game.copy = "module" /\ CanSpawn)
           ~> (~Running \/ (Cardinality(Living) = ConfiguredMaximum
                               /\ ConfiguredMaximum = 10))


\* C38: the health of the player and of every enemy is between 0 and
\* MaxHealth; a player at health 0 is hidden and does not collide, and the
\* step that took the health to 0 has had GameOver end a running game; an
\* enemy at health 0 is destroyed.
C38_HealthInRange ==
    /\ [](/\ Player.Health >= 0 /\ Player.Health <= Player.MaxHealth
           /\ (Player.state = "living" /\ Player.Health = 0)
                  => (Player.hidden /\ ~Player.collision)
           /\ \A e \in 1..Len(Enemies) :
                  /\ Enemies[e].Health >= 0 /\ Enemies[e].Health <= Enemies[e].MaxHealth
                  /\ Enemies[e].Health = 0 => Enemies[e].state = "destroyed")
    /\ [][(Player.state = "living" /\ Player.Health > 0 /\ Player'.Health = 0)
              => (~Game'.bGameStarted /\ Game'.bGameOver)]_vars

\* the player took more damage than MaxHealth: its health is 0, it is hidden
\* and the game is over; before that one enemy was destroyed at health 0 and
\* the other was at half its health when GameOver destroyed it
C38_Witness ==
    /\ Did.op = "CharacterTakeDamage" /\ Did.DamageAmount > Player.MaxHealth
    /\ Player.state = "living" /\ Player.Health = 0
    /\ Player.hidden /\ ~Player.collision
    /\ Game.copy = "module" /\ Game.bGameOver /\ ~Game.bGameStarted
    /\ Len(Enemies) = 2
    /\ Enemies[1].Health = 0 /\ Enemies[1].broadcasts = 1
    /\ Enemies[2].Health = 50 /\ Enemies[2].state = "destroyed"


\* the classes whose TakeDamage a projectile calls
Targets(projectile) ==
    IF projectile.bIsEnemyProjectile
    THEN {"AMCPShooterCharacter"}
    ELSE {"AMCPShooterEnemy"}

\* C39: a hit of a projectile on itself or on its owner changes nothing; a
\* projectile of an enemy has called TakeDamage of the player only and a
\* projectile of the player that of enemies only, never of its owner, and at
\* most once; a hit on any other actor destroys the projectile.
C39_ProjectileRules ==
    /\ [](\A p \in 1..Len(Projectiles) :
              /\ Len(Projectiles[p].damaged) <= 1
              /\ \A i \in 1..Len(Projectiles[p].damaged) :
                     /\ Projectiles[p].damaged[i].class \in Targets(Projectiles[p])
                     /\ Projectiles[p].damaged[i] # Projectiles[p].Owner
                     /\ Projectiles[p].damaged[i] # ProjectileActor(p))
    /\ [][Did'.op = "ProjectileOnHit"
              => IF Did'.OtherActor \in {ProjectileActor(Did'.p), Projectiles[Did'.p].Owner}
                 THEN ShooterUntouched
                 ELSE Did'.OtherActor # NoActor
                         => Projectiles'[Did'.p].state = "destroyed"]_vars

\* a projectile of the player has hit an enemy, which it damaged, and a
\* projectile of that enemy has hit the scenery; both are destroyed
C39_Witness ==
    /\ Len(Projectiles) = 2
    /\ Projectiles[1].Owner = PlayerActor /\ ~Projectiles[1].bIsEnemyProjectile
    /\ Projectiles[1].damaged = <<EnemyActor(1)>>
    /\ Projectiles[1].state = "destroyed"
    /\ Enemies[1].Health = 90
    /\ Projectiles[2].Owner = EnemyActor(1) /\ Projectiles[2].bIsEnemyProjectile
    /\ Projectiles[2].damaged = <<>>
    /\ Projectiles[2].state = "destroyed"
    /\ Did.op = "ProjectileOnHit" /\ Did.p = 2 /\ Did.OtherActor = WallActor

============================================================================
